---- MODULE Spec2Model ----
(***************************************************************************)
(* Model of baiq-autofix: the run() orchestration of src/src/index.ts      *)
(* (issue resolution, pre-fix test, workspace setup, the codex retry loop, *)
(* the aider single run, commit / push / pull-request pipeline and the     *)
(* top-level error handler), with the text helpers of src/src/lib.ts.      *)
(*                                                                         *)
(* Texts (process output, prompts, comment bodies) are sequences of        *)
(* segments [kind, id, n]: the first n characters of the text named        *)
(* (kind, id).  Lengths are kept so that truncate() is computed as the     *)
(* code computes it.  Every external call (subprocess, GitHub API) is an   *)
(* event appended to log, in program order.                                *)
(***************************************************************************)
EXTENDS Integers, Sequences, FiniteSets, TLC

\* ------------------------------------------------------------------ bounds
MaxRetry == 2          \* largest value of the retry-max input explored
SmallLen == 7          \* length of a short process output
BigLen == 20001        \* length of a process output above every truncation limit
IssueTitleLen == 12    \* length of the issue title
IssueBodyLen == 40     \* length of the issue body put in the prompt
MaxAttempts == 3       \* largest retry-max explored in the retry loop taken alone

OutLens == {0, SmallLen, BigLen}
\* <<stdout length, stderr length>> of an agent run
AgentOuts == {<< 0, SmallLen >>, << BigLen, 0 >>}
ExitCodes == {0, 1}
AgentInputs == {"codex", "aider", "other"}
Branches == {"main", "develop"}
BranchPrefixes == {"", "refs/heads/", "origin/"}
\* what one agent run leaves in the working tree: nothing, or edits of
\* tracked files together with new untracked files
Edits == {{}, {"modified", "untracked"}}
\* exit codes of `git checkout .` and `git clean -fd` before a retry
ResetCodes == {<< 0, 0 >>, << 1, 0 >>, << 0, 1 >>}
\* how a GitHub API call fails: 1 a transient error (rate limit, timeout,
\* 500/502/503), 2 a non-transient one (authentication, not found)
ApiErrors == {1, 2}

\* ------------------------------------------------------------------- texts
Seg(kind, id, n) == [kind |-> kind, id |-> id, n |-> n]

\* the characters produced by one process run; empty output is the empty text
Out(kind, id, n) == IF n = 0 THEN << >> ELSE << Seg(kind, id, n) >>

Lit(kind, id, n) == << Seg(kind, id, n) >>

RECURSIVE TextLen(_)
TextLen(t) == IF t = << >> THEN 0 ELSE Head(t).n + TextLen(Tail(t))

\* s.slice(0, k)
RECURSIVE Slice(_, _)
Slice(t, k) ==
  IF k <= 0 \/ t = << >> THEN << >>
  ELSE IF Head(t).n <= k THEN << Head(t) >> \o Slice(Tail(t), k - Head(t).n)
  ELSE << Seg(Head(t).kind, Head(t).id, k) >>

RECURSIVE Digits(_)
Digits(n) == IF n < 10 THEN 1 ELSE 1 + Digits(n \div 10)

\* "\n[TRUNCATED: <n> chars]"
Marker(n) == Seg("TRUNCATED", n, 13 + Digits(n) + 7)

truncateNoMarker(s, maxChars) ==
  IF TextLen(s) <= maxChars THEN s ELSE Slice(s, maxChars)

truncateOffByOne(s, maxChars) ==
  IF TextLen(s) <= maxChars + 1 THEN s
  ELSE Slice(s, maxChars) \o << Marker(TextLen(s) - maxChars) >>

truncate(s, maxChars) ==
  IF TextLen(s) <= maxChars THEN s
  ELSE Slice(s, maxChars) \o << Marker(TextLen(s) - maxChars) >>

\* sub occurs in t as a run of whole segments (the empty text occurs anywhere)
Contains(t, sub) ==
  \/ sub = << >>
  \/ \E i \in 1..Len(t) :
       /\ i + Len(sub) - 1 <= Len(t)
       /\ SubSeq(t, i, i + Len(sub) - 1) = sub

HasKind(t, kind) == \E i \in 1..Len(t) : t[i].kind = kind

\* ------------------------------------------------------------------ agents
\* what spawnSync reports as the status of the agent subprocess: its exit
\* code, or no status at all when the subprocess timed out or was killed
NoExitStatus == -1
SpawnStatuses == ExitCodes \cup {NoExitStatus}

\* agents/codex.ts:103, agents/aider.ts:88: exitCode: result.status ?? 1
exitCodeOfNoStatusAsZero(status) == IF status = NoExitStatus THEN 0 ELSE status

exitCodeOf(status) == IF status = NoExitStatus THEN 1 ELSE status

isValidAgentType(value) == value = "codex" \/ value = "aider"

\* index.ts:334: the configured test commands, specific first, chained for
\* aider's own loop
testCmds(specific, suite) ==
  (IF specific THEN << "test-command-specific" >> ELSE << >>)
  \o (IF suite THEN << "test-command-suite" >> ELSE << >>)

\* agents/aider.ts:46-55: the command line of the aider subprocess
runAiderArgs(params) ==
  << "--yes-always", "--no-auto-commits" >>
  \o (IF params.workingDirectory THEN << "--subtree-only" >> ELSE << >>)
  \o << "--model", "--message-file" >>

\* agents/codex.ts:88-90: the command line of the codex subprocess
runCodexArgs(params) == << "--config", "exec", "--full-auto", "--model", "prompt" >>

\* the parameters run() passes to agent.run (index.ts:336-344, 388-395);
\* workingDirectory is TRUE iff a sub-directory is configured
AgentParams(testCommand) == [workingDirectory |-> FALSE, testCommand |-> testCommand]

\* ------------------------------------------------------------------ prompt
buildAgentPromptRetryUnguarded(issueTitle, issueBody, agentType_, testFailureOutput_, retryAttempt, previousTestFailure_) ==
  Lit("promptHead", 0, 264) \o issueTitle \o Lit("promptBodyLabel", 0, 14) \o issueBody \o Lit("nl2", 0, 2)
  \o (IF testFailureOutput_ # << >>
        THEN Lit("preFixHeader", 0, 65) \o testFailureOutput_ \o Lit("nl2", 0, 2)
        ELSE << >>)
  \o (IF retryAttempt > 0
        THEN Lit("retryHeader", retryAttempt + 1, 109 + Digits(retryAttempt + 1))
             \o previousTestFailure_ \o Lit("retryFooter", 0, 87)
        ELSE << >>)
  \o Lit("task", 0, 466)
  \o (IF agentType_ = "aider" THEN << >> ELSE Lit("noTests", 0, 53))
  \o Lit("restrictions", 0, 156)

buildAgentPrompt(issueTitle, issueBody, agentType_, testFailureOutput_, retryAttempt, previousTestFailure_) ==
  Lit("promptHead", 0, 264) \o issueTitle \o Lit("promptBodyLabel", 0, 14) \o issueBody \o Lit("nl2", 0, 2)
  \o (IF testFailureOutput_ # << >>
        THEN Lit("preFixHeader", 0, 65) \o testFailureOutput_ \o Lit("nl2", 0, 2)
        ELSE << >>)
  \o (IF retryAttempt > 0 /\ previousTestFailure_ # << >>
        THEN Lit("retryHeader", retryAttempt + 1, 109 + Digits(retryAttempt + 1))
             \o previousTestFailure_ \o Lit("retryFooter", 0, 87)
        ELSE << >>)
  \o Lit("task", 0, 466)
  \o (IF agentType_ = "aider" THEN << >> ELSE Lit("noTests", 0, 53))
  \o Lit("restrictions", 0, 156)

\* ------------------------------------------------------------------- state
VARIABLES
  pc,                  \* position in run()
  retryMax,            \* parsed retry-max input
  agentType,           \* validated agent tag
  openaiApiKey,        \* TRUE iff the openai-api-key input is non-blank
  anthropicApiKey,     \* TRUE iff the anthropic-api-key input is non-blank
  apiReady,            \* octokit, owner, repo and issueNumber are all set
  testCommandSpecific, \* TRUE iff a specific test command is configured
  testCommandSuite,    \* TRUE iff a suite command is configured
  referencedContexts,  \* number of referenced issue blocks fetched
  baseBranch,          \* resolved base branch
  branchName,          \* working branch created in this run
  testFailureOutput,   \* pre-fix failure output (empty text when undefined)
  attempt,             \* loop index of the retry loop
  previousTestFailure, \* feedback threaded to the next attempt
  agentResult,         \* result of the last agent run
  tree,                \* working tree: the kinds of change it holds against HEAD
  fixSucceeded,
  successfulPrompt,
  prTry,               \* loop index of the PR creation loop
  cTry,                \* loop index of the final comment loop
  pr,                  \* the pull request created, or NoPR
  prUrlSet,            \* the pr-url output was set
  failed,              \* core.setFailed was called
  outcome,             \* how the run ended
  log,                 \* external calls made so far, in order
  comments,            \* body of every comment the run tried to post, in order
  prompts,             \* the prompt of every agent invocation, in order
  agentArgv,           \* command line of the last agent subprocess
  event,               \* the triggering event as the run read it
  issueBranch,         \* "Branch where bug was discovered" field of the issue
  baseBranchInput,     \* the base-branch input
  defaultBranch,       \* default branch of the repository
  checkedOut,          \* branch handed to git fetch / checkout / pull
  call,                \* last call of a helper of lib.ts: name, arguments, result
  agentStatus          \* exit status spawnSync reported for the last agent subprocess

vars == << pc, retryMax, agentType, openaiApiKey, anthropicApiKey, apiReady, testCommandSpecific,
           testCommandSuite, referencedContexts, baseBranch, branchName,
           testFailureOutput, attempt, previousTestFailure, agentResult, tree,
           fixSucceeded, successfulPrompt, prTry, cTry, pr, prUrlSet, failed,
           outcome, log, comments, prompts, agentArgv,
                  event, issueBranch, baseBranchInput, defaultBranch, checkedOut, call, agentStatus >>

NoPR == [head |-> "none", base |-> "none"]
\* the event payload before it is read
NoEvent == [name |-> "unread", number |-> FALSE, labelled |-> FALSE]
\* a branch text is an optional prefix followed by a branch name; the empty
\* text has neither
BranchText(prefix, name) == [prefix |-> prefix, name |-> name]
NoBranch == BranchText("", "")
NoCall == [fn |-> "none", args |-> << >>, result |-> << >>]
NoResult == [exitCode |-> 0, stdout |-> << >>, stderr |-> << >>]

\* one external call: op names the call, att the attempt (or -1), res its
\* exit code (0 = success, 1 = failure / exception), len the size of what it
\* produced: the captured failure output of a test, the body of a comment,
\* the lines of `git status --porcelain`, for an agent run whether the
\* working tree differs from HEAD when it returns (1) or not (0), and for
\* the `git clean` of a retry the number of kinds of change left in the
\* working tree once both reset commands have run
Ev(op, att, res, len) == [op |-> op, att |-> att, res |-> res, len |-> len]

Init ==
  /\ pc = "start"
  /\ retryMax \in 1..MaxRetry
  /\ agentType = "none"
  /\ openaiApiKey = FALSE
  /\ anthropicApiKey = FALSE
  /\ apiReady = FALSE
  /\ testCommandSpecific = FALSE
  /\ testCommandSuite = FALSE
  /\ referencedContexts = 0
  /\ baseBranch = "none"
  /\ branchName = "none"
  /\ testFailureOutput = << >>
  /\ attempt = 0
  /\ previousTestFailure = << >>
  /\ agentResult = NoResult
  /\ tree = {}
  /\ fixSucceeded = FALSE
  /\ successfulPrompt = << >>
  /\ prTry = 0
  /\ cTry = 0
  /\ pr = NoPR
  /\ prUrlSet = FALSE
  /\ failed = FALSE
  /\ outcome = "running"
  /\ log = << >>
  /\ comments = << >>
  /\ prompts = << >>
  /\ agentArgv = << >>
  /\ event = NoEvent
  /\ issueBranch = NoBranch
  /\ baseBranchInput = NoBranch
  /\ defaultBranch = "none"
  /\ checkedOut = "none"
  /\ call = NoCall
  /\ agentStatus = 0

\* ----------------------------------------------------------------- helpers
Throw == pc' = "catch"

\* index.ts:172-177: the credential precondition
KeysMissingIgnored(agentInput, openai, anthropic) == FALSE

KeysMissing(agentInput, openai, anthropic) ==
  \/ agentInput = "codex" /\ ~openai
  \/ agentInput = "aider" /\ ~openai /\ ~anthropic

\* lib.ts resolveBaseBranch: the base-branch input if it is not empty, else
\* the branch named in the issue if it is not empty, else the default
\* branch; a leading refs/heads/ or origin/ of the chosen text is dropped
IsEmptyBranch(b) == b.prefix = "" /\ b.name = ""

resolveBaseBranch(issueBranch_, baseBranchInput_, defaultBranch_) ==
  IF ~IsEmptyBranch(baseBranchInput_) THEN baseBranchInput_.name
  ELSE IF ~IsEmptyBranch(issueBranch_) THEN issueBranch_.name
  ELSE defaultBranch_

\* index.ts:149, 224, 264: the three branch texts handed to
\* resolveBaseBranch, as <<issueBranch, baseBranchInput, defaultBranch>>
BranchInputs ==
  { << BranchText("", "main"), BranchText("origin/", "develop"), "main" >>,
    << BranchText("refs/heads/", "develop"), NoBranch, "main" >>,
    << NoBranch, NoBranch, "main" >> }

\* index.ts:311-313: the branch the workspace commands are given
gitCheckoutBaseDefault(baseBranch_, defaultBranch_) == defaultBranch_

gitCheckoutBase(baseBranch_, defaultBranch_) == baseBranch_

\* index.ts:143-145: the agent, openai-api-key and anthropic-api-key inputs
\* explored, as <<agent, openai key given, anthropic key given>>: for each
\* agent the keys that satisfy its precondition and those that do not
KeyInputs ==
  { << "codex", TRUE, FALSE >>, << "codex", FALSE, TRUE >>, << "codex", FALSE, FALSE >>,
    << "aider", TRUE, FALSE >>, << "aider", FALSE, TRUE >>, << "aider", FALSE, FALSE >>,
    << "other", TRUE, TRUE >> }

\* ----------------------------------------------------------------- actions
\* index.ts:142-177: read inputs, validate the agent tag and the credentials.
\* A failure here is thrown outside the try block: no comment, run().catch
\* marks the job failed.
ValidateInputs ==
  /\ pc = "start"
  /\ \E agentInput \in AgentInputs, openai \in BOOLEAN, anthropic \in BOOLEAN :
       /\ << agentInput, openai, anthropic >> \in KeyInputs
       /\ IF ~isValidAgentType(agentInput) \/ KeysMissing(agentInput, openai, anthropic)
            THEN /\ pc' = "done"
                 /\ outcome' = "threw"
                 /\ failed' = TRUE
                 /\ UNCHANGED << agentType, openaiApiKey, anthropicApiKey >>
            ELSE /\ pc' = "event"
                 /\ agentType' = agentInput
                 /\ openaiApiKey' = openai
                 /\ anthropicApiKey' = anthropic
                 /\ UNCHANGED << outcome, failed >>
  /\ UNCHANGED << retryMax, apiReady, testCommandSpecific, testCommandSuite,
                  referencedContexts, baseBranch, branchName, testFailureOutput,
                  attempt, previousTestFailure, agentResult, tree, fixSucceeded,
                  successfulPrompt, prTry, cTry, pr, prUrlSet, log, comments, prompts, agentArgv,
                  event, issueBranch, baseBranchInput, defaultBranch, checkedOut, call, agentStatus >>

\* index.ts:200: the issue carries the required label (the required-label
\* input is never empty: it defaults to "autofix")
HasRequiredLabelAlways(hasLabel) == TRUE

HasRequiredLabel(hasLabel) == hasLabel

\* index.ts:185-206: event kind, issue number and required label
CheckEvent ==
  /\ pc = "event"
  /\ \E eventIsIssues \in BOOLEAN, hasNumber \in BOOLEAN, hasLabel \in BOOLEAN :
       /\ event' = [name |-> IF eventIsIssues THEN "issues" ELSE "push",
                    number |-> hasNumber, labelled |-> hasLabel]
       /\ IF ~eventIsIssues
            THEN pc' = "done" /\ outcome' = "skipped" /\ UNCHANGED apiReady
          ELSE IF ~hasNumber
            THEN Throw /\ UNCHANGED << outcome, apiReady >>
          ELSE IF ~HasRequiredLabel(hasLabel)
            THEN pc' = "done" /\ outcome' = "skipped" /\ UNCHANGED apiReady
          ELSE pc' = "getIssue" /\ apiReady' = TRUE /\ UNCHANGED outcome
  /\ UNCHANGED << retryMax, agentType, openaiApiKey, anthropicApiKey, testCommandSpecific,
                  testCommandSuite, referencedContexts, baseBranch, branchName,
                  testFailureOutput, attempt, previousTestFailure, agentResult,
                  tree, fixSucceeded, successfulPrompt, prTry, cTry, pr, prUrlSet,
                  failed, log, comments, prompts, agentArgv,
                  issueBranch, baseBranchInput, defaultBranch, checkedOut, call, agentStatus >>

\* index.ts:208-230: fetch the issue, extract the test commands and the
\* test-case reference from its body (or the fallback inputs)
GetIssue ==
  /\ pc = "getIssue"
  /\ \E ok \in BOOLEAN, specific \in BOOLEAN, suite \in BOOLEAN, hasRef \in BOOLEAN :
       IF ~ok
         THEN /\ log' = Append(log, Ev("issues.get", -1, 1, 0))
              /\ Throw
              /\ UNCHANGED << testCommandSpecific, testCommandSuite >>
         ELSE /\ log' = Append(log, Ev("issues.get", -1, 0, 0))
              /\ testCommandSpecific' = specific
              /\ testCommandSuite' = suite
              /\ pc' = IF hasRef THEN "getRefIssue" ELSE "getRepo"
  /\ UNCHANGED << retryMax, agentType, openaiApiKey, anthropicApiKey, apiReady, referencedContexts,
                  baseBranch, branchName, testFailureOutput, attempt,
                  previousTestFailure, agentResult, tree, fixSucceeded,
                  successfulPrompt, prTry, cTry, pr, prUrlSet, failed, outcome,
                  comments, prompts, agentArgv,
                  event, issueBranch, baseBranchInput, defaultBranch, checkedOut, call, agentStatus >>

\* index.ts:232-251: fetch the referenced test-case issue; a failure is only
\* a warning
GetRefIssue ==
  /\ pc = "getRefIssue"
  /\ \E ok \in BOOLEAN :
       /\ log' = Append(log, Ev("issues.getRef", -1, IF ok THEN 0 ELSE 1, 0))
       /\ referencedContexts' = IF ok THEN 1 ELSE 0
  /\ pc' = "getRepo"
  /\ UNCHANGED << retryMax, agentType, openaiApiKey, anthropicApiKey, apiReady, testCommandSpecific,
                  testCommandSuite, baseBranch, branchName, testFailureOutput,
                  attempt, previousTestFailure, agentResult, tree, fixSucceeded,
                  successfulPrompt, prTry, cTry, pr, prUrlSet, failed, outcome,
                  comments, prompts, agentArgv,
                  event, issueBranch, baseBranchInput, defaultBranch, checkedOut, call, agentStatus >>

\* index.ts:263-266: repository default branch and base-branch resolution
GetRepo ==
  /\ pc = "getRepo"
  /\ \E ok \in BOOLEAN, b \in BranchInputs :
       IF ~ok
         THEN /\ log' = Append(log, Ev("repos.get", -1, 1, 0))
              /\ Throw
              /\ UNCHANGED << baseBranch, issueBranch, baseBranchInput, defaultBranch >>
         ELSE /\ log' = Append(log, Ev("repos.get", -1, 0, 0))
              /\ issueBranch' = b[1]
              /\ baseBranchInput' = b[2]
              /\ defaultBranch' = b[3]
              /\ baseBranch' = resolveBaseBranch(b[1], b[2], b[3])
              /\ pc' = "getRef"
  /\ UNCHANGED << retryMax, agentType, openaiApiKey, anthropicApiKey, apiReady, testCommandSpecific,
                  testCommandSuite, referencedContexts, branchName,
                  testFailureOutput, attempt, previousTestFailure, agentResult,
                  tree, fixSucceeded, successfulPrompt, prTry, cTry, pr, prUrlSet,
                  failed, outcome, comments, prompts, agentArgv,
                  event, checkedOut, call, agentStatus >>

\* index.ts:270-285: where the run goes when the ref lookup of the base
\* branch succeeded / failed
AfterRefLookupNoStop(found) == "preTest"

AfterRefLookup(found) == IF found THEN "preTest" ELSE "done"

\* index.ts:268-286: the base branch must exist on the remote
CheckBaseBranch ==
  /\ pc = "getRef"
  /\ \E found \in BOOLEAN, posted \in BOOLEAN :
       IF found
         THEN /\ log' = Append(log, Ev("git.getRef", -1, 0, 0))
              /\ pc' = AfterRefLookup(TRUE)
              /\ UNCHANGED << failed, outcome, comments >>
         ELSE /\ failed' = TRUE
              /\ log' = log \o << Ev("git.getRef", -1, 1, 0),
                                  Ev("comment:baseMissing", -1, IF posted THEN 0 ELSE 1, 200) >>
              /\ comments' = Append(comments, Lit("baseMissingComment", 0, 200))
              /\ IF posted
                   THEN pc' = AfterRefLookup(FALSE) /\ outcome' = "baseBranchMissing"
                   ELSE Throw /\ UNCHANGED outcome
  /\ UNCHANGED << retryMax, agentType, openaiApiKey, anthropicApiKey, apiReady, testCommandSpecific,
                  testCommandSuite, referencedContexts, baseBranch, branchName,
                  testFailureOutput, attempt, previousTestFailure, agentResult,
                  tree, fixSucceeded, successfulPrompt, prTry, cTry, pr, prUrlSet,
                  prompts, agentArgv,
                  event, issueBranch, baseBranchInput, defaultBranch, checkedOut, call, agentStatus >>

\* index.ts:296-297: the failure context kept from the pre-fix test
PreTestCaptureAlways(exitCode, out) == truncate(out, 15000)

PreTestCaptureUntruncated(exitCode, out) == IF exitCode # 0 THEN out ELSE << >>

PreTestCapture(exitCode, out) ==
  IF exitCode # 0 THEN truncate(out, 15000) ELSE << >>

\* index.ts:291-304: run the specific test once before any fix
PreTest ==
  /\ pc = "preTest"
  /\ IF testCommandSpecific
       THEN \E exitCode \in ExitCodes, n \in OutLens :
              /\ log' = Append(log, Ev("specific", -1, exitCode, IF exitCode # 0 THEN n ELSE 0))
              /\ testFailureOutput' = PreTestCapture(exitCode, Out("specificOut", -1, n))
       ELSE UNCHANGED << log, testFailureOutput >>
  /\ pc' = "install"
  /\ UNCHANGED << retryMax, agentType, openaiApiKey, anthropicApiKey, apiReady, testCommandSpecific,
                  testCommandSuite, referencedContexts, baseBranch, branchName,
                  attempt, previousTestFailure, agentResult, tree, fixSucceeded,
                  successfulPrompt, prTry, cTry, pr, prUrlSet, failed, outcome,
                  comments, prompts, agentArgv,
                  event, issueBranch, baseBranchInput, defaultBranch, checkedOut, call, agentStatus >>

\* index.ts:307, agents/codex.ts:31-39, agents/aider.ts:13-21: install the
\* agent CLI; a failed install throws an error that carries the installer's
\* output
Install ==
  /\ pc = "install"
  /\ \E ok \in BOOLEAN, n \in OutLens :
       /\ log' = Append(log, Ev("install", -1, IF ok THEN 0 ELSE 1, IF ok THEN 0 ELSE n))
       /\ IF ok THEN pc' = "gitSetup" ELSE Throw
  /\ UNCHANGED << retryMax, agentType, openaiApiKey, anthropicApiKey, apiReady, testCommandSpecific,
                  testCommandSuite, referencedContexts, baseBranch, branchName,
                  testFailureOutput, attempt, previousTestFailure, agentResult,
                  tree, fixSucceeded, successfulPrompt, prTry, cTry, pr, prUrlSet,
                  failed, outcome, comments, prompts, agentArgv,
                  event, issueBranch, baseBranchInput, defaultBranch, checkedOut, call, agentStatus >>

\* exit codes of `git fetch`, `git checkout <base>`, `git pull --ff-only` and
\* `git checkout -b` (utils.ts:10-27: exec returns the exit code of a
\* failing command in its result and throws nothing): all four succeed, or
\* all four fail
SetupCodes == {<< 0, 0, 0, 0 >>, << 1, 1, 1, 1 >>}

\* index.ts:311-316: the workspace commands, in program order
WorkspaceCommandsPullFirst(codes) ==
  << Ev("git pull", -1, codes[3], 0), Ev("git fetch", -1, codes[1], 0),
     Ev("git checkout base", -1, codes[2], 0), Ev("git checkout -b", -1, codes[4], 0) >>

WorkspaceCommands(codes) ==
  << Ev("git fetch", -1, codes[1], 0), Ev("git checkout base", -1, codes[2], 0),
     Ev("git pull", -1, codes[3], 0), Ev("git checkout -b", -1, codes[4], 0) >>

\* index.ts:311-322: where the run goes after the workspace commands; their
\* results are not read
AfterWorkspaceCommandsChecked(codes, agentType_) ==
  IF \E i \in 1..4 : codes[i] # 0 THEN "catch"
  ELSE IF agentType_ = "aider" THEN "aiderRun" ELSE "agentRun"

AfterWorkspaceCommands(codes, agentType_) ==
  IF agentType_ = "aider" THEN "aiderRun" ELSE "agentRun"

\* index.ts:309-322: check out the base branch, create the working branch,
\* then enter the single run (aider) or the retry loop (codex)
GitSetup ==
  /\ pc = "gitSetup"
  /\ \E codes \in SetupCodes :
       /\ log' = log \o WorkspaceCommands(codes)
       /\ pc' = AfterWorkspaceCommands(codes, agentType)
  /\ checkedOut' = gitCheckoutBase(baseBranch, defaultBranch)
  /\ branchName' = "qa/issue"
  /\ attempt' = 0
  /\ UNCHANGED << retryMax, agentType, openaiApiKey, anthropicApiKey, apiReady, testCommandSpecific,
                  testCommandSuite, referencedContexts, baseBranch,
                  testFailureOutput, previousTestFailure, agentResult, tree,
                  fixSucceeded, successfulPrompt, prTry, cTry, pr, prUrlSet,
                  failed, outcome, comments, prompts, agentArgv,
                  event, issueBranch, baseBranchInput, defaultBranch, call, agentStatus >>

\* ------------------------------------------------------- the attempt loop
issueTitle == Lit("issueTitle", 0, IssueTitleLen)

\* index.ts:253-261
issueBodyForPrompt ==
  truncate(Lit("issueBody", 0, IssueBodyLen)
             \o (IF referencedContexts > 0
                   THEN Lit("nl2", 0, 2) \o Lit("referencedContext", 0, IssueBodyLen)
                   ELSE << >>),
           180000)

\* index.ts:405-412
fullAgentOutput(attempt_, result) ==
  Lit("agentOutputHeader", attempt_ + 1, 89 + result.exitCode)
  \o (IF result.stdout # << >> THEN result.stdout ELSE Lit("(empty)", 0, 7))
  \o Lit("stderrLabel", 0, 10)
  \o (IF result.stderr # << >> THEN result.stderr ELSE Lit("(empty)", 0, 7))

\* index.ts:448
noChangesFeedbackNone == << >>

noChangesFeedback == Lit("noChangesFeedback", 0, 110)

\* index.ts:426, 438, 460, 484: the last iteration of the retry loop
IsLastAttemptNever(attempt_, retryMax_) == FALSE

IsLastAttemptEarly(attempt_, retryMax_) == attempt_ >= retryMax_ - 2

IsLastAttempt(attempt_, retryMax_) == attempt_ = retryMax_ - 1

\* index.ts:369: attempt++
NextAttemptSkip(attempt_) == attempt_ + 2

NextAttempt(attempt_) == attempt_ + 1

\* index.ts:436-437: `git status --porcelain` prints nothing
StatusEmptyNever(tree_) == FALSE

StatusEmpty(tree_) == tree_ = {}

\* index.ts:455, 478, 502: which command verifies the attempt
VerifyCommandSpecificFirst(suite, specific) ==
  IF specific THEN "specific" ELSE IF suite THEN "suite" ELSE "none"

VerifyCommandNone(suite, specific) == "none"

VerifyCommand(suite, specific) ==
  IF suite THEN "suite" ELSE IF specific THEN "specific" ELSE "none"

\* index.ts:458, 482: the verification command passed
TestPassedAlways(exitCode) == TRUE

TestPassed(exitCode) == exitCode = 0

\* index.ts:414: the agent run failed
AgentExitFailedNever(exitCode) == FALSE

AgentExitFailed(exitCode) == exitCode # 0

\* index.ts:459, 483: the feedback kept from a failed verification
TestFeedbackStale(out, previous) == previous

TestFeedbackAccumulated(out, previous) == previous \o truncate(out, 10000)

TestFeedback(out, previous) == truncate(out, 10000)

\* index.ts:373: `git checkout .` puts the tracked files back when it succeeds
gitCheckoutKeeps(tree_, exitCode) == tree_

gitCheckout(tree_, exitCode) == IF exitCode = 0 THEN tree_ \ {"modified"} ELSE tree_

\* index.ts:374: `git clean -fd` removes the untracked files when it succeeds
gitCleanKeeps(tree_, exitCode) == tree_

gitClean(tree_, exitCode) == IF exitCode = 0 THEN tree_ \ {"untracked"} ELSE tree_

\* index.ts:369-403: one iteration of the retry loop up to the agent's return
\* (reset of the previous attempt's edits, prompt, agent subprocess)
AgentRun ==
  /\ pc = "agentRun"
  /\ IF attempt < retryMax
       THEN LET prompt == buildAgentPrompt(issueTitle, issueBodyForPrompt, agentType,
                                          testFailureOutput, attempt, previousTestFailure)
            IN \E status \in SpawnStatuses, outs \in AgentOuts, edits \in Edits,
                  codes \in (IF attempt > 0 THEN ResetCodes ELSE {<< 0, 0 >>}) :
                 LET before == IF attempt > 0
                                 THEN gitClean(gitCheckout(tree, codes[1]), codes[2])
                                 ELSE tree
                     exitCode == exitCodeOf(status)
                     reset == IF attempt > 0
                                THEN << Ev("git checkout .", attempt, codes[1], 0),
                                        Ev("git clean", attempt, codes[2], Cardinality(before)) >>
                                ELSE << >>
                 IN
                 /\ agentStatus' = status
                 /\ agentResult' = [exitCode |-> exitCode,
                                    stdout |-> Out("agentStdout", attempt, outs[1]),
                                    stderr |-> Out("agentStderr", attempt, outs[2])]
                 /\ tree' = before \cup edits
                 /\ log' = log \o reset
                              \o << Ev("agent", attempt, exitCode, IF before \cup edits # {} THEN 1 ELSE 0) >>
                 /\ prompts' = Append(prompts, prompt)
                 /\ agentArgv' = runCodexArgs(AgentParams(<< >>))
                 /\ pc' = "afterAgent"
       ELSE \* the loop condition fails: fall through to the check after the loop
            /\ pc' = "postLoop"
            /\ UNCHANGED << agentResult, tree, log, prompts, agentArgv,
                  event, issueBranch, baseBranchInput, defaultBranch, checkedOut, call, agentStatus >>
  /\ UNCHANGED << retryMax, agentType, openaiApiKey, anthropicApiKey, apiReady, testCommandSpecific,
                  testCommandSuite, referencedContexts, baseBranch, branchName,
                  testFailureOutput, attempt, previousTestFailure, fixSucceeded,
                  successfulPrompt, prTry, cTry, pr, prUrlSet, failed, outcome,
                  comments,
                  event, issueBranch, baseBranchInput, defaultBranch, checkedOut, call >>

\* index.ts:414-433: the agent exited non-zero
AgentFailed ==
  /\ pc = "afterAgent"
  /\ AgentExitFailed(agentResult.exitCode)
  /\ LET body == Lit("agentFailedHead", attempt + 1, 60)
                   \o fullAgentOutput(attempt, agentResult) \o Lit("fence", 0, 4)
     IN \E posted \in BOOLEAN :
          /\ log' = Append(log, Ev("comment:agentFailed", attempt, IF posted THEN 0 ELSE 1, TextLen(body)))
          /\ comments' = Append(comments, body)
          /\ IF ~posted
               THEN Throw /\ UNCHANGED << failed, outcome, previousTestFailure, attempt >>
             ELSE IF IsLastAttempt(attempt, retryMax)
               THEN /\ failed' = TRUE
                    /\ outcome' = "agentFailed"
                    /\ pc' = "done"
                    /\ UNCHANGED << previousTestFailure, attempt >>
             ELSE /\ previousTestFailure' = truncate(fullAgentOutput(attempt, agentResult), 10000)
                  /\ attempt' = NextAttempt(attempt)
                  /\ pc' = "agentRun"
                  /\ UNCHANGED << failed, outcome >>
  /\ agentResult' = NoResult   \* not read after this point of the iteration
  /\ UNCHANGED << retryMax, agentType, openaiApiKey, anthropicApiKey, apiReady, testCommandSpecific,
                  testCommandSuite, referencedContexts, baseBranch, branchName,
                  testFailureOutput, tree, fixSucceeded,
                  successfulPrompt, prTry, cTry, pr, prUrlSet, prompts, agentArgv,
                  event, issueBranch, baseBranchInput, defaultBranch, checkedOut, call, agentStatus >>

\* index.ts:435-452: the agent exited 0; did it change the working tree?
ChangeCheck ==
  /\ pc = "afterAgent"
  /\ ~AgentExitFailed(agentResult.exitCode)
  /\ LET status == Ev("git status", attempt, 0, IF tree = {} THEN 0 ELSE 1)
         body == Lit("noChangesComment", retryMax, 90)
     IN IF ~StatusEmpty(tree)
          THEN /\ log' = Append(log, status)
               /\ pc' = "verify"
               /\ UNCHANGED << comments, outcome, previousTestFailure, attempt >>
        ELSE IF IsLastAttempt(attempt, retryMax)
          THEN \E posted \in BOOLEAN :
                 /\ log' = log \o << status, Ev("comment:noChanges", attempt, IF posted THEN 0 ELSE 1, TextLen(body)) >>
                 /\ comments' = Append(comments, body)
                 /\ IF posted
                      THEN pc' = "done" /\ outcome' = "noChanges"
                      ELSE Throw /\ UNCHANGED outcome
                 /\ UNCHANGED << previousTestFailure, attempt >>
        ELSE /\ log' = Append(log, status)
             /\ previousTestFailure' = noChangesFeedback
             /\ attempt' = NextAttempt(attempt)
             /\ pc' = "agentRun"
             /\ UNCHANGED << comments, outcome >>
  /\ agentResult' = NoResult   \* not read after this point of the iteration
  /\ UNCHANGED << retryMax, agentType, openaiApiKey, anthropicApiKey, apiReady, testCommandSpecific,
                  testCommandSuite, referencedContexts, baseBranch, branchName,
                  testFailureOutput, tree, fixSucceeded,
                  successfulPrompt, prTry, cTry, pr, prUrlSet, failed, prompts, agentArgv,
                  event, issueBranch, baseBranchInput, defaultBranch, checkedOut, call, agentStatus >>

\* index.ts:454-510: verification of an attempt that changed the tree
Verify ==
  /\ pc = "verify"
  /\ LET cmd == VerifyCommand(testCommandSuite, testCommandSpecific)
         prompt == prompts[Len(prompts)]
     IN IF cmd = "none"
          THEN /\ fixSucceeded' = TRUE
               /\ successfulPrompt' = prompt
               /\ pc' = "postLoop"
               /\ UNCHANGED << log, comments, failed, outcome, previousTestFailure, attempt >>
          ELSE \E exitCode \in ExitCodes, n \in OutLens :
                 LET run == Ev(cmd, attempt, exitCode, IF exitCode # 0 THEN n ELSE 0)
                     testOutput == TestFeedback(Out(cmd \o "Out", attempt, n), previousTestFailure)
                     body == Lit(cmd \o "FailedComment", retryMax, 100)
                               \o truncate(testOutput, 8000) \o Lit("fence", 0, 5)
                 IN IF TestPassed(exitCode)
                      THEN /\ log' = Append(log, run)
                           /\ fixSucceeded' = TRUE
                           /\ successfulPrompt' = prompt
                           /\ pc' = "postLoop"
                           /\ UNCHANGED << comments, failed, outcome, previousTestFailure, attempt >>
                    ELSE IF IsLastAttempt(attempt, retryMax)
                      THEN \E posted \in BOOLEAN :
                             /\ log' = log \o << run, Ev("comment:" \o cmd \o "Failed", attempt, IF posted THEN 0 ELSE 1, TextLen(body)) >>
                             /\ comments' = Append(comments, body)
                             /\ IF posted
                                  THEN pc' = "done" /\ failed' = TRUE /\ outcome' = "testsFailed"
                                  ELSE Throw /\ UNCHANGED << failed, outcome >>
                             /\ UNCHANGED << fixSucceeded, successfulPrompt, previousTestFailure, attempt >>
                    ELSE /\ log' = Append(log, run)
                         /\ previousTestFailure' = testOutput
                         /\ attempt' = NextAttempt(attempt)
                         /\ pc' = "agentRun"
                         /\ UNCHANGED << comments, failed, outcome, fixSucceeded, successfulPrompt >>
  /\ UNCHANGED << retryMax, agentType, openaiApiKey, anthropicApiKey, apiReady, testCommandSpecific,
                  testCommandSuite, referencedContexts, baseBranch, branchName,
                  testFailureOutput, agentResult, tree, prTry, cTry, pr, prUrlSet,
                  prompts, agentArgv,
                  event, issueBranch, baseBranchInput, defaultBranch, checkedOut, call, agentStatus >>

\* index.ts:346: the single run of aider succeeded
AiderSucceededAlways(exitCode) == TRUE

AiderSucceeded(exitCode) == exitCode = 0

\* index.ts:322-364: the single run of aider, whose exit code is final; run()
\* chains the test commands into the parameters of agent.run
AiderRun ==
  /\ pc = "aiderRun"
  /\ LET prompt == buildAgentPrompt(issueTitle, issueBodyForPrompt, agentType,
                                    testFailureOutput, 0, << >>)
     IN \E status \in SpawnStatuses, outs \in AgentOuts,
           edits \in Edits, posted \in BOOLEAN :
          LET exitCode == exitCodeOf(status)
              result == [exitCode |-> exitCode,
                         stdout |-> Out("agentStdout", 0, outs[1]),
                         stderr |-> Out("agentStderr", 0, outs[2])]
              body == Lit("aiderFailedHead", 0, 46)
                        \o truncate(result.stdout \o Lit("nl", 0, 1) \o result.stderr, 20000)
                        \o Lit("fence", 0, 4)
          IN /\ agentResult' = NoResult   \* block-scoped, not read after the branch
             /\ agentStatus' = status
             /\ tree' = tree \cup edits
             /\ prompts' = Append(prompts, prompt)
             /\ agentArgv' = runAiderArgs(AgentParams(testCmds(testCommandSpecific, testCommandSuite)))
             /\ IF AiderSucceeded(exitCode)
                  THEN /\ log' = Append(log, Ev("agent", 0, exitCode, IF tree \cup edits # {} THEN 1 ELSE 0))
                       /\ fixSucceeded' = TRUE
                       /\ successfulPrompt' = prompt
                       /\ pc' = "postLoop"
                       /\ UNCHANGED << comments, failed, outcome >>
                  ELSE /\ failed' = TRUE
                       /\ log' = log \o << Ev("agent", 0, exitCode, IF tree \cup edits # {} THEN 1 ELSE 0),
                                           Ev("comment:aiderFailed", 0, IF posted THEN 0 ELSE 1, TextLen(body)) >>
                       /\ comments' = Append(comments, body)
                       /\ UNCHANGED << fixSucceeded, successfulPrompt >>
                       /\ IF posted
                            THEN pc' = "done" /\ outcome' = "agentFailed"
                            ELSE Throw /\ UNCHANGED outcome
  /\ UNCHANGED << retryMax, agentType, openaiApiKey, anthropicApiKey, apiReady, testCommandSpecific,
                  testCommandSuite, referencedContexts, baseBranch, branchName,
                  testFailureOutput, attempt, previousTestFailure, prTry, cTry,
                  pr, prUrlSet,
                  event, issueBranch, baseBranchInput, defaultBranch, checkedOut, call >>

\* ------------------------------------------------- commit, push, PR, catch
\* index.ts:519-539: the git commands between the loop and the push; the
\* commit fails when there is nothing to commit
CommitSequenceIdentityLate(tree_) ==
  << Ev("git diff --name-only", -1, 0, 0), Ev("git diff", -1, 0, 0),
     Ev("git add", -1, 0, 0),
     Ev("git commit", -1, IF tree_ # {} THEN 0 ELSE 1, 0),
     Ev("git config", -1, 0, 0), Ev("git config", -1, 0, 0) >>

CommitSequence(tree_) ==
  << Ev("git diff --name-only", -1, 0, 0), Ev("git diff", -1, 0, 0),
     Ev("git config", -1, 0, 0), Ev("git config", -1, 0, 0),
     Ev("git add", -1, 0, 0),
     Ev("git commit", -1, IF tree_ # {} THEN 0 ELSE 1, 0) >>

\* index.ts:513-539: after the loop; changed files, git identity, commit
PostLoop ==
  /\ pc = "postLoop"
  /\ IF ~fixSucceeded
       THEN /\ failed' = TRUE
            /\ outcome' = "notFixed"
            /\ pc' = "done"
            /\ UNCHANGED << log, tree >>
       ELSE /\ log' = log \o CommitSequence(tree)
            /\ tree' = {}
            /\ pc' = "describe"
            /\ UNCHANGED << failed, outcome >>
  /\ UNCHANGED << retryMax, agentType, openaiApiKey, anthropicApiKey, apiReady, testCommandSpecific,
                  testCommandSuite, referencedContexts, baseBranch, branchName,
                  testFailureOutput, attempt, previousTestFailure, agentResult,
                  fixSucceeded, successfulPrompt, prTry, cTry, pr, prUrlSet,
                  comments, prompts, agentArgv,
                  event, issueBranch, baseBranchInput, defaultBranch, checkedOut, call, agentStatus >>

\* index.ts:541-564: optional generated PR description (a failure is only a
\* warning), then push of the working branch
DescribeAndPush ==
  /\ pc = "describe"
  /\ \E addDescription \in BOOLEAN, generated \in BOOLEAN :
       log' = log \o (IF addDescription /\ openaiApiKey
                        THEN << Ev("openai", -1, IF generated THEN 0 ELSE 1, 0) >>
                        ELSE << >>)
                  \o << Ev("git push", -1, 0, 0) >>
  /\ prTry' = 0
  /\ pc' = "createPR"
  /\ UNCHANGED << retryMax, agentType, openaiApiKey, anthropicApiKey, apiReady, testCommandSpecific,
                  testCommandSuite, referencedContexts, baseBranch, branchName,
                  testFailureOutput, attempt, previousTestFailure, agentResult,
                  tree, fixSucceeded, successfulPrompt, cTry, pr, prUrlSet, failed,
                  outcome, comments, prompts, agentArgv,
                  event, issueBranch, baseBranchInput, defaultBranch, checkedOut, call, agentStatus >>

\* index.ts:570-577: the pull request asked of the API
PullRequestSwapped(head, base) == [head |-> base, base |-> head]

PullRequest(head, base) == [head |-> head, base |-> base]

\* index.ts:579-583: a failed creation is tried again unless it was the
\* third try, whatever the error was
RetryPullRequestAlways(attempt_, err) == TRUE

RetryPullRequest(attempt_, err) == attempt_ # 2

\* index.ts:582: milliseconds slept before the next try
PullRequestDelay(attempt_) == 2000

\* index.ts:568-589: one try of the pull-request creation loop; a failed
\* try is logged with its error class and the delay slept after it
CreatePR ==
  /\ pc = "createPR"
  /\ prTry < 3
  /\ \E res \in {0} \cup ApiErrors :
       \* what makes the call fail does not change between two tries
       /\ (prTry > 0 /\ res # 0) => res = log[Len(log)].res
       /\ log' = Append(log, Ev("pulls.create", prTry, res,
                                IF res # 0 /\ RetryPullRequest(prTry, res)
                                  THEN PullRequestDelay(prTry) ELSE 0))
       /\ IF res = 0
            THEN /\ pr' = PullRequest(branchName, baseBranch)
                 /\ prUrlSet' = TRUE
                 /\ cTry' = 0
                 /\ pc' = "issueComment"
                 /\ UNCHANGED prTry
          ELSE IF ~RetryPullRequest(prTry, res)
            THEN Throw /\ UNCHANGED << pr, prUrlSet, cTry, prTry >>
          ELSE /\ prTry' = prTry + 1
               /\ pc' = "createPR"
               /\ UNCHANGED << pr, prUrlSet, cTry >>
  /\ UNCHANGED << retryMax, agentType, openaiApiKey, anthropicApiKey, apiReady, testCommandSpecific,
                  testCommandSuite, referencedContexts, baseBranch, branchName,
                  testFailureOutput, attempt, previousTestFailure, agentResult,
                  tree, fixSucceeded, successfulPrompt, failed, outcome, comments,
                  prompts, agentArgv,
                  event, issueBranch, baseBranchInput, defaultBranch, checkedOut, call, agentStatus >>

\* index.ts:591-607: one try of the follow-up comment; its failure never
\* fails the run
IssueComment ==
  /\ pc = "issueComment"
  /\ cTry < 3
  /\ LET body == Lit("prOpenedHead", 0, 80) \o truncate(successfulPrompt, 60000)
                   \o Lit("detailsEnd", 0, 15)
     IN \E ok \in BOOLEAN :
          /\ log' = Append(log, Ev("comment:prOpened", cTry, IF ok THEN 0 ELSE 1, TextLen(body)))
          /\ comments' = Append(comments, body)
          /\ IF ok \/ cTry = 2
               THEN pc' = "done" /\ outcome' = "fixed" /\ UNCHANGED cTry
               ELSE cTry' = cTry + 1 /\ pc' = "issueComment" /\ UNCHANGED outcome
  /\ UNCHANGED << retryMax, agentType, openaiApiKey, anthropicApiKey, apiReady, testCommandSpecific,
                  testCommandSuite, referencedContexts, baseBranch, branchName,
                  testFailureOutput, attempt, previousTestFailure, agentResult,
                  tree, fixSucceeded, successfulPrompt, prTry, pr, prUrlSet, failed,
                  prompts, agentArgv,
                  event, issueBranch, baseBranchInput, defaultBranch, checkedOut, call, agentStatus >>

\* the message of the exception raised by the call `raisedBy`: the
\* installer's output after a fixed head (agents/codex.ts:36,
\* agents/aider.ts:18), else the short message of an API or payload error
errorMessage(raisedBy) ==
  IF raisedBy.op = "install"
    THEN Lit("installFailedHead", 0, 28) \o Out("installOut", -1, raisedBy.len)
    ELSE Lit("errorMessage", 0, SmallLen)

\* index.ts:616: the body of the error comment
errorCommentUntruncated(msg) ==
  Lit("unexpectedErrorHead", 0, 70) \o msg \o Lit("fence", 0, 5)

errorComment(msg) ==
  Lit("unexpectedErrorHead", 0, 70) \o truncate(msg, 6000) \o Lit("fence", 0, 5)

\* index.ts:608-628: the top-level handler: try to comment, re-raise; the
\* rejected run() promise marks the job failed
CatchAll ==
  /\ pc = "catch"
  /\ IF apiReady
       THEN \E posted \in BOOLEAN :
              LET body == errorComment(errorMessage(log[Len(log)]))
              IN /\ log' = Append(log, Ev("comment:unexpectedError", -1, IF posted THEN 0 ELSE 1, TextLen(body)))
                 /\ comments' = Append(comments, body)
       ELSE UNCHANGED << log, comments >>
  /\ failed' = TRUE
  /\ outcome' = "threw"
  /\ pc' = "done"
  /\ UNCHANGED << retryMax, agentType, openaiApiKey, anthropicApiKey, apiReady, testCommandSpecific,
                  testCommandSuite, referencedContexts, baseBranch, branchName,
                  testFailureOutput, attempt, previousTestFailure, agentResult,
                  tree, fixSucceeded, successfulPrompt, prTry, cTry, pr, prUrlSet,
                  prompts, agentArgv,
                  event, issueBranch, baseBranchInput, defaultBranch, checkedOut, call, agentStatus >>

Next ==
  \/ ValidateInputs
  \/ CheckEvent
  \/ GetIssue
  \/ GetRefIssue
  \/ GetRepo
  \/ CheckBaseBranch
  \/ PreTest
  \/ Install
  \/ GitSetup
  \/ AgentRun
  \/ AgentFailed
  \/ ChangeCheck
  \/ Verify
  \/ AiderRun
  \/ PostLoop
  \/ DescribeAndPush
  \/ CreatePR
  \/ IssueComment
  \/ CatchAll

Spec == Init /\ [][Next]_vars

\* the run up to the end of the attempt loop: every step but the push, the
\* pull-request loop and the follow-up comment
LoopNext ==
  \/ ValidateInputs
  \/ CheckEvent
  \/ GetIssue
  \/ GetRefIssue
  \/ GetRepo
  \/ CheckBaseBranch
  \/ PreTest
  \/ Install
  \/ GitSetup
  \/ AgentRun
  \/ AgentFailed
  \/ ChangeCheck
  \/ Verify
  \/ AiderRun
  \/ PostLoop
  \/ CatchAll

\* the run is one sequential thread: a step that is enabled is taken
FairSpec == Init /\ [][LoopNext]_vars /\ WF_vars(LoopNext)

\* index.ts:318-369: the run at the entry of the retry loop, after a setup
\* in which every step succeeded: codex with its key, a labelled issue
\* without test-case reference, the default branch as base, any choice of
\* test commands; the specific test, when configured, failed before the fix
\* with a short output
LoopEntry ==
  /\ pc = "agentRun"
  /\ agentType = "codex"
  /\ openaiApiKey = TRUE
  /\ anthropicApiKey = FALSE
  /\ apiReady = TRUE
  /\ testCommandSpecific \in BOOLEAN
  /\ testCommandSuite \in BOOLEAN
  /\ referencedContexts = 0
  /\ baseBranch = "main"
  /\ branchName = "qa/issue"
  /\ testFailureOutput = (IF testCommandSpecific
                            THEN PreTestCapture(1, Out("specificOut", -1, SmallLen))
                            ELSE << >>)
  /\ attempt = 0
  /\ previousTestFailure = << >>
  /\ agentResult = NoResult
  /\ tree = {}
  /\ fixSucceeded = FALSE
  /\ successfulPrompt = << >>
  /\ prTry = 0
  /\ cTry = 0
  /\ pr = NoPR
  /\ prUrlSet = FALSE
  /\ failed = FALSE
  /\ outcome = "running"
  /\ log = << Ev("issues.get", -1, 0, 0), Ev("repos.get", -1, 0, 0),
              Ev("git.getRef", -1, 0, 0) >>
            \o (IF testCommandSpecific THEN << Ev("specific", -1, 1, SmallLen) >> ELSE << >>)
            \o << Ev("install", -1, 0, 0) >>
            \o WorkspaceCommands(<< 0, 0, 0, 0 >>)
  /\ comments = << >>
  /\ prompts = << >>
  /\ agentArgv = << >>
  /\ event = [name |-> "issues", number |-> TRUE, labelled |-> TRUE]
  /\ issueBranch = NoBranch
  /\ baseBranchInput = NoBranch
  /\ defaultBranch = "main"
  /\ checkedOut = "main"
  /\ call = NoCall
  /\ agentStatus = 0

RetryInit == retryMax \in 1..MaxAttempts /\ LoopEntry

\* index.ts:369-516: the retry loop up to the commit, and the handler
RetryNext ==
  \/ AgentRun
  \/ AgentFailed
  \/ ChangeCheck
  \/ Verify
  \/ PostLoop
  \/ CatchAll

RetrySpec == RetryInit /\ [][RetryNext]_vars

\* the attempt loop is over: the run returned, or went on to the push
LoopOver == pc \in {"done", "describe"}

TypeOK ==
  /\ pc \in {"start", "event", "getIssue", "getRefIssue", "getRepo", "getRef",
             "preTest", "install", "gitSetup", "agentRun", "afterAgent", "verify",
             "aiderRun", "postLoop", "describe", "createPR", "issueComment",
             "catch", "done"}
  /\ retryMax \in (1..MaxRetry) \cup (1..MaxAttempts)
  /\ attempt \in 0..retryMax
  /\ agentStatus \in SpawnStatuses
  /\ tree \subseteq {"modified", "untracked"}

\* ------------------------------------------------------ reading the log
Idx == 1..Len(log)
Ops(op) == {i \in Idx : log[i].op = op}
AgentIdx == Ops("agent")
ShipIdx == {i \in Idx : log[i].op \in {"git commit", "git push", "pulls.create"}}
FailureReports == {"comment:agentFailed", "comment:noChanges", "comment:suiteFailed",
                   "comment:specificFailed", "comment:aiderFailed"}
HasAgentBefore(i) == \E a \in AgentIdx : a < i
LastAgentBefore(i) == CHOOSE a \in AgentIdx : a < i /\ \A b \in AgentIdx : b < i => b <= a
\* the events of the attempt that starts with the agent run at index a
AttemptEvents(a) == {j \in Idx : j > a /\ log[j].att = log[a].att
                                 /\ log[j].op \in {"git status", "suite", "specific"}}
\* the attempt whose agent run is at index a passed every check of the loop
AttemptPassed(a) ==
  /\ log[a].res = 0
  /\ \E j \in AttemptEvents(a) : log[j].op = "git status" /\ log[j].len > 0
  /\ testCommandSuite =>
       \E j \in AttemptEvents(a) : log[j].op = "suite" /\ log[j].res = 0
  /\ (~testCommandSuite /\ testCommandSpecific) =>
       \E j \in AttemptEvents(a) : log[j].op = "specific" /\ log[j].res = 0

\* ------------------------------------------------------------------ claims
\* C1: in manual-retry mode (codex) a git commit, a git push and a
\* pull-request creation happen only after an attempt in which the agent
\* exited 0, `git status --porcelain` was non-empty and the applicable
\* verification command (suite, else specific test) exited 0; the last
\* attempt before any of them passed all three checks.
C1_ShipOnlyAfterVerifiedAttempt ==
  agentType = "codex" =>
    \A i \in ShipIdx : HasAgentBefore(i) /\ AttemptPassed(LastAgentBefore(i))

\* a codex run that opened its pull request on the second attempt
C1_Witness ==
  /\ agentType = "codex"
  /\ pr # NoPR
  /\ attempt = 1
  /\ testCommandSuite

C3_NoShipAfterNoChange ==
  \A i \in ShipIdx :
    HasAgentBefore(i) =>
      ~(log[LastAgentBefore(i)].res = 0 /\ log[LastAgentBefore(i)].len = 0)

AgentFailureCommentThrew(a) ==
  /\ log[a].res # 0
  /\ a < Len(log)
  /\ log[a+1].op = "comment:agentFailed"
  /\ log[a+1].res = 1

C5_Bound ==
  agentType = "codex" =>
    /\ Cardinality(AgentIdx) <= retryMax
    /\ \A a \in AgentIdx : log[a].att = Cardinality({b \in AgentIdx : b < a})
    /\ \A a \in AgentIdx : AttemptPassed(a) => \A b \in AgentIdx : b <= a
    /\ pc = "done" =>
         \A a \in AgentIdx :
           (~AttemptPassed(a) /\ log[a].att < retryMax - 1) =>
             \/ \E b \in AgentIdx : log[b].att = log[a].att + 1
             \/ AgentFailureCommentThrew(a)

C6_ScenarioB ==
  (/\ pc = "done"
   /\ AgentIdx # {}
   /\ \A a \in AgentIdx : log[a].res = 0 /\ log[a].len = 0)
  =>
  /\ Cardinality(AgentIdx) = retryMax
  /\ Ops("comment:noChanges") # {}
  /\ Ops("git commit") = {}
  /\ Ops("pulls.create") = {}

\* the raw output of the suite run logged at index i
SuiteOutput(i) == Out("suiteOut", log[i].att, log[i].len)

C8_ScenarioD ==
  \A i \in Ops("git.getRef") :
    log[i].res # 0 =>
      /\ failed
      /\ pc \in {"done", "catch"}
      /\ Len(log) > i /\ log[i+1].op = "comment:baseMissing"
      /\ \A j \in Idx : j > i => log[j].op \in {"comment:baseMissing", "comment:unexpectedError"}
      /\ AgentIdx = {} /\ prompts = << >> /\ branchName = "none"

\* the run ended on the missing base branch
C8_Witness ==
  /\ pc = "done"
  /\ outcome = "baseBranchMissing"
  /\ \E i \in Ops("git.getRef") : log[i].res # 0

\* scenario A: a specific test that fails before the fix, no suite, a first
\* agent run that exits 0 and edits the tree, and the specific test passing
\* after it (run by the engine for codex, inside the agent's loop for aider)
ScenarioA ==
  /\ pc = "done"
  /\ testCommandSpecific /\ ~testCommandSuite
  /\ \E i \in Ops("specific") : log[i].att = -1 /\ log[i].res # 0
  /\ \E a \in AgentIdx : log[a].att = 0 /\ log[a].res = 0 /\ log[a].len = 1
  /\ agentType = "codex" => \E i \in Ops("specific") : log[i].att = 0 /\ log[i].res = 0

PRsCreated == {i \in Ops("pulls.create") : log[i].res = 0}

C10_PreTest ==
  /\ (testCommandSpecific /\ AgentIdx # {}) =>
       LET first == CHOOSE a \in AgentIdx : \A b \in AgentIdx : a <= b
           pre == {i \in Ops("specific") : i < first}
       IN /\ Cardinality(pre) = 1
          /\ \A i \in pre :
               LET captured == truncate(Out("specificOut", -1, log[i].len), 15000)
               IN IF log[i].res # 0
                    THEN /\ Contains(prompts[1], captured)
                         /\ captured # << >> =>
                              Contains(prompts[1], Lit("preFixHeader", 0, 65) \o captured)
                    ELSE ~HasKind(prompts[1], "preFixHeader") /\ ~HasKind(prompts[1], "specificOut")
  /\ (~testCommandSpecific /\ AgentIdx # {}) =>
       Ops("specific") = {} /\ ~HasKind(prompts[1], "preFixHeader")
  /\ (log # << >> /\ log[Len(log)] = Ev("specific", -1, 0, 0)) =>
       pc = "install" /\ ~failed /\ outcome = "running"

\* the pre-fix test failed with a long output and the agent was invoked
C10_Witness ==
  /\ AgentIdx # {}
  /\ \E i \in Ops("specific") : log[i].att = -1 /\ log[i].res # 0 /\ log[i].len = BigLen
  /\ HasKind(prompts[1], "TRUNCATED")

\* the pre-fix test passed and the agent was invoked
C10_WitnessPass ==
  /\ AgentIdx # {}
  /\ \E i \in Ops("specific") : log[i].att = -1 /\ log[i].res = 0

\* ------------------------------------------------- claims C11 .. C20
\* C11: attempt isolation in manual-retry mode.  At every agent invocation
\* with attempt index >= 1 the working tree is clean: the two reset commands
\* that precede it leave no modification and no untracked file of an earlier
\* attempt.
C11_AttemptIsolation ==
  agentType = "codex" =>
    \A i \in Ops("git clean") : log[i].att >= 1 => log[i].len = 0

\* how the attempt whose agent run is at index a failed ("none" if it did
\* not fail, or is not over)
FailureClass(a) ==
  IF log[a].res # 0 THEN "agentFailure"
  ELSE IF \E j \in AttemptEvents(a) : log[j].op = "git status" /\ log[j].len = 0
    THEN "noOp"
  ELSE IF \E j \in AttemptEvents(a) : log[j].op \in {"suite", "specific"} /\ log[j].res # 0
    THEN "testFailure"
  ELSE "none"

\* the feedback text of a prompt: what stands between the header and the
\* footer of its retry section (empty when it has no retry section)
RetrySection(prompt) ==
  IF ~HasKind(prompt, "retryHeader") THEN << >>
  ELSE LET h == CHOOSE i \in 1..Len(prompt) : prompt[i].kind = "retryHeader"
           f == CHOOSE i \in 1..Len(prompt) : prompt[i].kind = "retryFooter"
       IN SubSeq(prompt, h + 1, f - 1)

\* the failure class read back from a feedback text: the agent's output
\* block, the fixed no-changes sentence, or the output of a test (which may
\* be empty, and is then not injected at all)
ClassOfFeedback(fb) ==
  IF fb = << >> THEN "testFailure"
  ELSE IF fb[1].kind = "agentOutputHeader" THEN "agentFailure"
  ELSE IF fb[1].kind = "noChangesFeedback" THEN "noOp"
  ELSE "testFailure"

LastAttemptFailed ==
  \E a \in AgentIdx : log[a].att = retryMax - 1 /\ FailureClass(a) # "none"

ExhaustedOutcomes == {"agentFailed", "noChanges", "testsFailed"}

ExplanatoryComments == FailureReports \cup {"comment:baseMissing"}

\* the three endings of C14
EndedWithPR == PRsCreated # {} /\ prUrlSet
EndedWithExplanation ==
  /\ PRsCreated = {}
  /\ outcome # "threw"
  /\ \E i \in Idx : log[i].op \in ExplanatoryComments /\ log[i].res = 0
EndedWithErrorComment ==
  /\ outcome = "threw"
  /\ \E i \in Ops("comment:unexpectedError") : log[i].res = 0

\* C14 as stated: every run ends in exactly one of three ways: a pull
\* request created and its URL surfaced, an explanatory comment posted and
\* no pull request, or a hard failure with an error comment; no run ends
\* with neither a pull request nor a comment.
C14_Original ==
  pc = "done" =>
    \/ EndedWithPR /\ ~EndedWithExplanation /\ ~EndedWithErrorComment
    \/ ~EndedWithPR /\ EndedWithExplanation /\ ~EndedWithErrorComment
    \/ ~EndedWithPR /\ ~EndedWithExplanation /\ EndedWithErrorComment

\* C14 as amended: every run ends in exactly one of five ways: skipped (no
\* call, no comment, job not failed); a precondition failure before the API
\* client exists (job failed, no call, no comment); a pull request created
\* and its URL surfaced; an explanatory comment posted and no pull request;
\* or the top-level handler, which marks the job failed and tries to post
\* the error comment, with no pull request.
C14_Amended ==
  pc = "done" =>
    \/ /\ outcome = "skipped"
       /\ log = << >> /\ comments = << >> /\ ~failed
    \/ /\ outcome = "threw" /\ ~apiReady
       /\ log = << >> /\ comments = << >> /\ failed
    \/ /\ outcome = "fixed"
       /\ Cardinality(PRsCreated) = 1 /\ prUrlSet /\ pr # NoPR
    \/ /\ outcome \in ExhaustedOutcomes \cup {"baseBranchMissing"}
       /\ PRsCreated = {} /\ ~prUrlSet /\ pr = NoPR
       /\ log[Len(log)].op \in ExplanatoryComments /\ log[Len(log)].res = 0
    \/ /\ outcome = "threw" /\ apiReady
       /\ failed
       /\ PRsCreated = {} /\ ~prUrlSet /\ pr = NoPR
       /\ log[Len(log)].op = "comment:unexpectedError"

\* a run that went to the top-level handler and could not post its comment
C14_Witness ==
  /\ pc = "done"
  /\ outcome = "threw"
  /\ apiReady
  /\ log[Len(log)].op = "comment:unexpectedError"
  /\ log[Len(log)].res # 0

\* the call logged at index i raised an exception inside the try block
Raised(i) ==
  \/ log[i].op \in {"issues.get", "repos.get", "install"} /\ log[i].res # 0
  \/ log[i].op \in ExplanatoryComments /\ log[i].res # 0
  \/ log[i].op = "pulls.create" /\ log[i].att = 2 /\ log[i].res # 0

\* C15: an exception raised once the issue number and the API client are
\* known (API error, agent install failure, pull-request creation failing
\* three times) is caught at the top level; an error comment whose message
\* is truncated to 6,000 characters is attempted; the exception is re-raised
\* and the job marked failed, whether or not the comment could be posted.
C15_TopLevelHandler ==
  \A i \in Idx :
    Raised(i) =>
      /\ apiReady
      /\ \/ pc = "catch" /\ i = Len(log)
         \/ /\ pc = "done"
            /\ outcome = "threw"
            /\ failed
            /\ i = Len(log) - 1
            /\ log[Len(log)].op = "comment:unexpectedError"
            /\ comments[Len(comments)] =
                 Lit("unexpectedErrorHead", 0, 70)
                 \o truncate(IF log[i].op = "install"
                               THEN Lit("installFailedHead", 0, 28)
                                    \o Out("installOut", -1, log[i].len)
                               ELSE Lit("errorMessage", 0, SmallLen),
                             6000)
                 \o Lit("fence", 0, 5)
            /\ TextLen(comments[Len(comments)]) <= 70 + 6000 + 13 + Digits(BigLen) + 7 + 5

\* a failed install ended in the handler; the long message was cut and the
\* comment could not be posted
C15_Witness ==
  /\ pc = "done"
  /\ outcome = "threw"
  /\ failed
  /\ \E i \in Ops("install") : log[i].res # 0
  /\ log[Len(log)].op = "comment:unexpectedError"
  /\ log[Len(log)].res # 0
  /\ HasKind(comments[Len(comments)], "TRUNCATED")

\* C16: credential and configuration preconditions fail fast.  With codex
\* and no OpenAI key, aider and neither key, or an agent tag other than
\* codex / aider, the run fails before any subprocess and any API call; so
\* whenever a call has been made, or the run is past the checks, the tag is
\* valid and the key it needs is there.
C16_FailFast ==
  /\ (pc = "done" /\ agentType = "none") =>
       /\ failed /\ outcome = "threw"
       /\ log = << >> /\ comments = << >> /\ prompts = << >> /\ ~apiReady
  /\ (log # << >> \/ pc \notin {"start", "done"}) =>
       /\ agentType \in {"codex", "aider"}
       /\ agentType = "codex" => openaiApiKey
       /\ agentType = "aider" => (openaiApiKey \/ anthropicApiKey)

\* a run stopped by the precondition checks
C16_Witness ==
  /\ pc = "done"
  /\ agentType = "none"
  /\ failed
  /\ log = << >>

\* C17: single-run mode (aider).  The agent is invoked once whatever
\* retryMax is; the engine runs no test command after it; exit 0 leads to
\* the commit / push / pull-request path, exit # 0 to the failure comment, a
\* failed job and no commit, push or pull request.
C17_SingleRun ==
  agentType = "aider" =>
    /\ Cardinality(AgentIdx) <= 1
    /\ pc \in {"postLoop", "describe", "createPR", "issueComment"} => Cardinality(AgentIdx) = 1
    /\ \A a \in AgentIdx :
         /\ log[a].att = 0
         /\ \A j \in Idx : j > a => log[j].op \notin {"suite", "specific", "git status"}
         /\ log[a].res = 0 =>
              /\ fixSucceeded
              /\ Ops("comment:aiderFailed") = {}
              /\ a < Len(log) => log[a+1].op = "git diff --name-only"
              /\ pc \in {"createPR", "issueComment"} =>
                   Ops("git commit") # {} /\ Ops("git push") # {}
              /\ pc = "done" =>
                   Ops("git commit") # {} /\ Ops("git push") # {} /\ Ops("pulls.create") # {}
         /\ log[a].res # 0 =>
              /\ failed
              /\ ~fixSucceeded
              /\ a < Len(log) /\ log[a+1].op = "comment:aiderFailed"
              /\ ShipIdx = {} /\ pr = NoPR

\* an aider run with retryMax = 2 opened its pull request after one
\* invocation
C17_Witness ==
  /\ agentType = "aider"
  /\ retryMax = 2
  /\ pc = "done"
  /\ outcome = "fixed"
  /\ Cardinality(AgentIdx) = 1

\* C18: in single-run mode with a test command configured the agent
\* subprocess is given the chained test commands (specific, then suite), so
\* that a pull request opened in this mode implies they ran after the
\* agent's edits.
C18_AiderGivenTests ==
  (agentType = "aider" /\ AgentIdx # {} /\ (testCommandSpecific \/ testCommandSuite)) =>
    LET cmds == testCmds(testCommandSpecific, testCommandSuite)
    IN \A k \in 1..Len(cmds) : \E i \in 1..Len(agentArgv) : agentArgv[i] = cmds[k]

\* test/helpers.test.ts:33: capped exponential backoff
Backoff(n) == IF 1000 * 2^n < 10000 THEN 1000 * 2^n ELSE 10000

\* C19: a call to the GitHub API (pull-request creation included) is tried
\* again only after a transient failure, after min(1000 * 2^n, 10000) ms; a
\* non-transient failure is propagated at once.
C19_RetryOnlyTransient ==
  \A i \in Ops("pulls.create") :
    /\ (log[i].res # 0 /\ i < Len(log) /\ log[i+1].op = "pulls.create") =>
         log[i].res = 1 /\ log[i].len = Backoff(log[i].att)
    /\ log[i].res = 2 => (i < Len(log) => log[i+1].op # "pulls.create")

IsSpace(c) == c = " "

RECURSIVE trimStart(_)
trimStart(s) == IF s # << >> /\ IsSpace(Head(s)) THEN trimStart(Tail(s)) ELSE s

RECURSIVE trimEnd(_)
trimEnd(s) ==
  IF s # << >> /\ IsSpace(s[Len(s)]) THEN trimEnd(SubSeq(s, 1, Len(s) - 1)) ELSE s

trim(s) == trimStart(trimEnd(s))

\* String.prototype.trim() / trimEnd() of a multi-line string: line breaks
\* are whitespace too
IsBlank(lines) == \A i \in 1..Len(lines) : trim(lines[i]) = << >>

RECURSIVE trimEndLines(_)
trimEndLines(lines) ==
  IF Len(lines) = 0 THEN << << >> >>
  ELSE IF trim(lines[Len(lines)]) = << >>
    THEN trimEndLines(SubSeq(lines, 1, Len(lines) - 1))
  ELSE SubSeq(lines, 1, Len(lines) - 1) \o << trimEnd(lines[Len(lines)]) >>

\* the "i" flag of the heading expression
Lower(c) == IF c = "L" THEN "l" ELSE c

\* lib.ts:17 and lib.ts:89: /^#{1,6}\s*<label>\s*$/i
headingRe(label, t) ==
  \E k \in 1..6 : \E a \in k..Len(t) :
    /\ k <= Len(t)
    /\ \A i \in 1..k : t[i] = "#"
    /\ \A i \in (k + 1)..a : IsSpace(t[i])
    /\ a + Len(label) <= Len(t)
    /\ \A i \in 1..Len(label) : Lower(t[a + i]) = Lower(label[i])
    /\ \A i \in (a + Len(label) + 1)..Len(t) : IsSpace(t[i])

\* lib.ts:25, lib.ts:96 and lib.ts:103: /^#{1,6}\s+/
isHeading(t) ==
  \E k \in 1..6 :
    /\ k < Len(t)
    /\ \A i \in 1..k : t[i] = "#"
    /\ IsSpace(t[k + 1])

\* lib.ts:19-20: index of the first line whose trimmed text matches the
\* heading of the label, 0 when there is none
FirstHeading(lines, label) ==
  LET hits == {i \in 1..Len(lines) : headingRe(label, trim(lines[i]))}
  IN IF hits = {} THEN 0 ELSE CHOOSE i \in hits : \A j \in hits : i <= j

\* lib.ts:22-27: the lines after line i up to the next line that starts a
\* heading (tested on the line as it stands, untrimmed)
RECURSIVE SectionAfter(_, _)
SectionAfter(lines, i) ==
  IF i >= Len(lines) \/ isHeading(lines[i + 1]) THEN << >>
  ELSE << lines[i + 1] >> \o SectionAfter(lines, i + 1)

\* lib.ts:29-35: every line trimmed, the empty ones dropped
RECURSIVE NonEmptyTrimmed(_)
NonEmptyTrimmed(lines) ==
  IF lines = << >> THEN << >>
  ELSE (IF trim(Head(lines)) = << >> THEN << >> ELSE << trim(Head(lines)) >>)
         \o NonEmptyTrimmed(Tail(lines))

\* no value (undefined)
None == << >>

\* lib.ts:13-41; the value is given as the sequence of its lines
extractIssueFormFieldValue(issueBody, label) ==
  IF IsBlank(issueBody) THEN None
  ELSE LET i == FirstHeading(issueBody, label)
       IN IF i = 0 THEN None ELSE NonEmptyTrimmed(SectionAfter(issueBody, i))

\* lib.ts:97: the trimmed line matches the heading of one of the labels
matchesTargetHeading(labels, trimmed) ==
  \E n \in 1..Len(labels) : headingRe(labels[n], trimmed)

\* lib.ts:101-107: the skip of a removed section stops before this line
NextIsHeadingNever(nextLine) == FALSE

NextIsHeading(nextLine) == isHeading(trim(nextLine))

\* lib.ts:92-112: the loop from line i on; skipping is TRUE inside a
\* removed section
RECURSIVE StripFrom(_, _, _, _)
StripFrom(lines, labels, i, skipping) ==
  IF i > Len(lines) THEN << >>
  ELSE IF skipping /\ ~NextIsHeading(lines[i])
    THEN StripFrom(lines, labels, i + 1, TRUE)
  ELSE IF isHeading(trim(lines[i])) /\ matchesTargetHeading(labels, trim(lines[i]))
    THEN StripFrom(lines, labels, i + 1, TRUE)
  ELSE << lines[i] >> \o StripFrom(lines, labels, i + 1, FALSE)

\* lib.ts:85-115
stripIssueSections(issueBody, labels) ==
  IF IsBlank(issueBody) THEN issueBody
  ELSE trimEndLines(StripFrom(issueBody, labels, 1, FALSE))

\* ---------------------------------------------------- parseGitHubIssueRef
DigitChars == {"0", "1", "2", "3", "4", "5", "6", "7", "8", "9"}
HexDigitChars == DigitChars \cup {"a", "b", "c", "d", "e", "f"}

DigitValue(c) ==
  CASE c = "0" -> 0 [] c = "1" -> 1 [] c = "2" -> 2 [] c = "3" -> 3 [] c = "4" -> 4
    [] c = "5" -> 5 [] c = "6" -> 6 [] c = "7" -> 7 [] c = "8" -> 8 [] c = "9" -> 9

DigitChar(d) == CHOOSE c \in DigitChars : DigitValue(c) = d

IsDigits(s) == s # << >> /\ \A i \in 1..Len(s) : s[i] \in DigitChars

\* the value of a string of decimal digits
RECURSIVE DecimalValue(_)
DecimalValue(s) ==
  IF s = << >> THEN 0
  ELSE 10 * DecimalValue(SubSeq(s, 1, Len(s) - 1)) + DigitValue(s[Len(s)])

\* `${number}` of a non-negative integer: its decimal digits
RECURSIVE DecimalText(_)
DecimalText(n) ==
  IF n < 10 THEN << DigitChar(n) >>
  ELSE DecimalText(n \div 10) \o << DigitChar(n % 10) >>

\* the mantissa of a decimal literal: digits, digits "." [digits], "." digits
IsMantissa(m) ==
  \/ IsDigits(m)
  \/ \E d \in 1..Len(m) :
       /\ m[d] = "."
       /\ \A i \in (1..Len(m)) \ {d} : m[i] \in DigitChars
       /\ Len(m) > 1

IsHexLiteral(s) ==
  /\ Len(s) >= 3
  /\ s[1] = "0" /\ s[2] = "x"
  /\ \A i \in 3..Len(s) : s[i] \in HexDigitChars

\* where the exponent part of the decimal literal s starts: Len(s) + 1
\* when it has none; 0 when s is no decimal literal
ExponentAt(s) ==
  LET cuts == {e \in 1..(Len(s) + 1) :
                 /\ IsMantissa(SubSeq(s, 1, e - 1))
                 /\ \/ e = Len(s) + 1
                    \/ s[e] = "e" /\ IsDigits(SubSeq(s, e + 1, Len(s)))}
  IN IF cuts = {} THEN 0 ELSE CHOOSE e \in cuts : TRUE

\* Number(s) of a text without sign or whitespace, as far as the code looks
\* at it: whether it is NaN, whether it is > 0, and whether the text is
\* plain decimal digits.  Texts are short enough for the value to be finite
\* and not to underflow.
NaN == [nan |-> TRUE, positive |-> FALSE, plain |-> FALSE]

Number(s) ==
  IF IsHexLiteral(s)
    THEN [nan |-> FALSE, positive |-> \E i \in 3..Len(s) : s[i] # "0", plain |-> FALSE]
  ELSE IF ExponentAt(s) # 0
    THEN [nan |-> FALSE,
          positive |-> \E i \in 1..(ExponentAt(s) - 1) : s[i] \in DigitChars \ {"0"},
          plain |-> IsDigits(s)]
  ELSE NaN

\* an input is a text (a sequence of pieces) or an absolute URL, given by
\* its host name and the segments between the slashes of its path
TextInput(chars) == [kind |-> "text", chars |-> chars, host |-> "", path |-> << >>]
Url(host, path) == [kind |-> "url", chars |-> << >>, host |-> host, path |-> path]

\* no reference (undefined)
NoRef == [owner |-> << >>, repo |-> << >>, number |-> NaN, url |-> TextInput(<< >>)]

\* lib.ts:72: u.pathname.split("/").filter(Boolean)
RECURSIVE filterBoolean(_)
filterBoolean(parts) ==
  IF parts = << >> THEN << >>
  ELSE (IF Head(parts) = << >> THEN << >> ELSE << Head(parts) >>) \o filterBoolean(Tail(parts))

\* lib.ts:80: the number taken from the path is accepted
NumberAccepted(numStr) == ~Number(numStr).nan /\ Number(numStr).positive

\* lib.ts:60: the number as written into the url
NumberInUrlAsTyped(digits) == digits

NumberInUrl(digits) == DecimalText(DecimalValue(digits))

\* lib.ts:43-83
parseGitHubIssueRef(input, defaultOwner_, defaultRepo_) ==
  IF input.kind = "text"
    THEN LET raw == trim(input.chars)
         IN IF raw = << >> THEN NoRef
            ELSE IF Head(raw) = "#" /\ IsDigits(Tail(raw))
              THEN IF ~Number(Tail(raw)).positive THEN NoRef
                   ELSE IF defaultOwner_ = << >> \/ defaultRepo_ = << >> THEN NoRef
                   ELSE [owner |-> defaultOwner_, repo |-> defaultRepo_,
                         number |-> Number(Tail(raw)),
                         url |-> Url("github.com",
                                     << defaultOwner_, defaultRepo_, << "issues" >>,
                                        NumberInUrl(Tail(raw)) >>)]
            \* a text without a scheme is no URL: new URL(raw) throws
            ELSE NoRef
  ELSE IF input.host # "github.com" THEN NoRef
  ELSE LET parts == filterBoolean(input.path)
       IN IF Len(parts) < 4 THEN NoRef
          ELSE IF parts[3] \notin {<< "issues" >>, << "pull" >>} THEN NoRef
          ELSE IF ~NumberAccepted(parts[4]) THEN NoRef
          ELSE [owner |-> parts[1], repo |-> parts[2], number |-> Number(parts[4]),
                url |-> input]

\* ------------------------------------------------------------ validateDiff
\* A diff is the sequence of its lines, as extractDiffOnly returns it
\* (trimmed: the last line has no line break after it).  A line is a
\* `diff --git a/<a> b/<b>` header, a `--- a/<a>` or `+++ b/<b>` file line,
\* a line that starts with @@ (given by its pieces), the `GIT binary patch`
\* line, or a changed line.
DiffLine(k, a, b, pieces) == [k |-> k, a |-> a, b |-> b, pieces |-> pieces]
GitLine(a, b) == DiffLine("git", a, b, << >>)
OldLine(a) == DiffLine("old", a, "", << >>)
NewLine(b) == DiffLine("new", "", b, << >>)
HunkLine(pieces) == DiffLine("hunk", "", "", pieces)
BinaryLine == DiffLine("binary", "", "", << >>)
ChangedLine == DiffLine("changed", "", "", << >>)

LockFiles == {"package-lock.json", "pnpm-lock.yaml", "yarn.lock"}
WorkflowFiles == {".github/workflows/ci.yml"}

\* part_007:72-74: /(^|\n)diff --git a\/<lockfile> b\/<lockfile>\n/
lockfileHeader(diff, i) ==
  /\ diff[i].k = "git"
  /\ diff[i].a \in LockFiles
  /\ diff[i].b = diff[i].a
  /\ i < Len(diff)

\* part_007:75: /(^|\n)diff --git a\/\.github\/workflows\//
workflowHeader(diff, i) == diff[i].k = "git" /\ diff[i].a \in WorkflowFiles

\* part_007:71-82: one of the forbidden-path patterns matches
touchesForbidden(diff) ==
  \E i \in 1..Len(diff) : lockfileHeader(diff, i) \/ workflowHeader(diff, i)

RangePieces == {"1", "1,3"}

\* part_007:90: /^@@\s+-\d+(,\d+)?\s+\+\d+(,\d+)?\s+@@/ ; a piece "-" or "+"
\* is the sign of a range, a piece of RangePieces its numbers
hunkHeaderPattern(p) ==
  \E s1 \in 2..Len(p), s2 \in 2..Len(p), s3 \in 2..Len(p) :
    /\ p[1] = "@@"
    /\ s1 + 2 <= s2 /\ s2 + 2 <= s3 /\ s3 + 1 <= Len(p)
    /\ \A i \in 2..s1 : IsSpace(p[i])
    /\ p[s1 + 1] = "-" /\ p[s1 + 2] \in RangePieces
    /\ s2 >= s1 + 3
    /\ \A i \in (s1 + 3)..s2 : IsSpace(p[i])
    /\ p[s2 + 1] = "+" /\ s2 + 2 <= Len(p) /\ p[s2 + 2] \in RangePieces
    /\ s3 >= s2 + 3
    /\ \A i \in (s2 + 3)..s3 : IsSpace(p[i])
    /\ p[s3 + 1] = "@@"

\* part_007:91: /^@@\s*$/m
malformedHunkPattern(p) == p[1] = "@@" /\ \A i \in 2..Len(p) : IsSpace(p[i])

\* part_007:101-102: lines.some((line) => line.startsWith("@@"))
hasHunkHeader(diff) == \E i \in 1..Len(diff) : diff[i].k = "hunk"

\* part_007:103-114: the check made on the hunk headers
hunksRejected(diff) ==
  /\ hasHunkHeader(diff)
  /\ \E i \in 1..Len(diff) : diff[i].k = "hunk" /\ ~hunkHeaderPattern(diff[i].pieces)

\* part_007:70-115: "ok" when the function returns, else what it throws
validateDiff(diff) ==
  IF touchesForbidden(diff) THEN "forbidden file"
  ELSE IF \E i \in 1..Len(diff) : diff[i].k = "binary" THEN "binary patch"
  ELSE IF \E i \in 1..Len(diff) : diff[i].k = "hunk" /\ malformedHunkPattern(diff[i].pieces)
    THEN "malformed hunk header"
  ELSE IF hunksRejected(diff) THEN "malformed hunk header"
  ELSE "ok"

\* ------------------------------------------------------------- retry-max
\* parseInt(s, 10): the integer written at the start of s after optional
\* whitespace and an optional sign, or NaN
DigitsPrefix(s) ==
  LET ends == {n \in 0..Len(s) : \A i \in 1..n : s[i] \in DigitChars}
  IN SubSeq(s, 1, CHOOSE n \in ends : \A m \in ends : m <= n)

parseInt(s) ==
  LET t == trimStart(s)
      signed == t # << >> /\ Head(t) \in {"-", "+"}
      d == DigitsPrefix(IF signed THEN Tail(t) ELSE t)
  IN IF d = << >> THEN [nan |-> TRUE, value |-> 0]
     ELSE [nan |-> FALSE,
           value |-> IF signed /\ Head(t) = "-" THEN 0 - DecimalValue(d) ELSE DecimalValue(d)]

\* index.ts:156: Number.isNaN(retryMaxParsed) ? 3 : Math.max(1, retryMaxParsed)
retryMaxOfUnclamped(parsed) == IF parsed.nan THEN 3 ELSE parsed.value

retryMaxOf(parsed) ==
  IF parsed.nan THEN 3 ELSE IF parsed.value < 1 THEN 1 ELSE parsed.value

\* index.ts:155-156: retryMax from the retry-max input
parseRetryMax(input) == retryMaxOf(parseInt(IF input = << >> THEN << "3" >> ELSE input))

\* ------------------------------------------------- calls of the helpers
\* bounds of the inputs explored
MaxBodyLines == 3      \* lines of an issue body
MaxInputLen == 3       \* pieces of a text input
MaxSections == 2       \* file sections of a diff

\* sequences over S of length 1 .. n
SeqsUpTo(S, n) == UNION {[1..k -> S] : k \in 1..n}

\* the label of a form field, and the placeholder GitHub's issue forms put
\* in an optional field left empty
Labels == {<< "L" >>, << "x" >>}
Placeholder == << "_No response_" >>

BodyLines ==
  { << >>, << " " >>, Placeholder, << "x" >>, << " ", "x", " " >>,
    << "#", " ", "L" >>, << "#", "L" >>, << " ", "#", "#", " ", " ", "l", " " >>,
    << "#", " ", "x" >>, << " ", "#", " ", "x" >>, << "#", " " >>,
    << "#", "#", "#", "#", "#", "#", "#", " ", "L" >> }

Bodies == SeqsUpTo(BodyLines, MaxBodyLines)
LabelLists == {<< << "L" >> >>, << << "L" >>, << "x" >> >>}

TextInputs ==
  {TextInput(c) : c \in {<< >>} \cup SeqsUpTo({"#", "0", "4", "7", " "}, MaxInputLen + 1)}
\* the last path segment; a segment "." or ".." is dropped by the URL parser,
\* which leaves no number in its place, as Number finds none in it
NumStrs == SeqsUpTo({"0", "7", ".", "e", "x"}, MaxInputLen)
Hosts == {"github.com", "www.github.com", "example.com"}
UrlInputs ==
  {Url(h, << << "acme" >>, << "app" >>, << k >>, n >> \o extra) :
     h \in Hosts, k \in {"issues", "pull", "commits"}, n \in NumStrs,
     extra \in {<< >>, << << "files" >> >>}}
  \cup {Url(h, p) : h \in Hosts,
                    p \in {<< >>, << << "acme" >>, << "app" >> >>,
                           << << "acme" >>, << >>, << "app" >>, << "issues" >>, << "7" >> >>,
                           << << "acme" >>, << "app" >>, << "issues" >> >>}}
Owners == {<< >>, << "acme" >>}
Repos == {<< >>, << "app" >>}

DiffPaths == {"a.txt", "yarn.lock", ".github/workflows/ci.yml"}
HunkLines ==
  { HunkLine(<< "@@", " ", "-", "1,3", " ", "+", "1,3", " ", "@@" >>),
    HunkLine(<< "@@", " ", "-", "1", " ", " ", "+", "1", " ", "@@", " ", "x" >>),
    HunkLine(<< "@@" >>),
    HunkLine(<< "@@", " " >>),
    HunkLine(<< "@@", " ", "-", "1,3", " ", "@@" >>),
    HunkLine(<< "@@", " ", "-", " ", "+", " ", "@@" >>),
    HunkLine(<< "@@", "-", "1,3", " ", "+", "1,3", " ", "@@" >>) }

\* one file section: with or without its `diff --git` header, then the two
\* file lines, then what follows them
FileSections ==
  {(IF hdr THEN << GitLine(p, p) >> ELSE << >>) \o << OldLine(p), NewLine(p) >> \o rest :
     hdr \in BOOLEAN, p \in DiffPaths,
     rest \in {<< >>, << BinaryLine >>} \cup {<< h, ChangedLine >> : h \in HunkLines}}
  \cup {<< GitLine(p, p) >> : p \in DiffPaths}

RECURSIVE Flatten(_)
Flatten(ss) == IF ss = << >> THEN << >> ELSE Head(ss) \o Flatten(Tail(ss))

Diffs == {Flatten(ss) : ss \in SeqsUpTo(FileSections, MaxSections)}

RetryMaxInputs == {<< >>} \cup SeqsUpTo({"0", "2", "5", "-", "x"}, MaxInputLen)

Call(fn, args, result) == [fn |-> fn, args |-> args, result |-> result]

runVars == << pc, retryMax, agentType, openaiApiKey, anthropicApiKey, apiReady,
              testCommandSpecific, testCommandSuite, referencedContexts, baseBranch,
              branchName, testFailureOutput, attempt, previousTestFailure,
              agentResult, tree, fixSucceeded, successfulPrompt, prTry, cTry, pr,
              prUrlSet, failed, outcome, log, comments, prompts, agentArgv, event,
              issueBranch, baseBranchInput, defaultBranch, checkedOut, agentStatus >>

CallExtract ==
  /\ call = NoCall
  /\ \E issueBody \in Bodies, label \in Labels :
       call' = Call("extractIssueFormFieldValue", << issueBody, label >>,
                    extractIssueFormFieldValue(issueBody, label))
  /\ UNCHANGED runVars

CallStrip ==
  /\ call = NoCall
  /\ \E issueBody \in Bodies, labels \in LabelLists :
       call' = Call("stripIssueSections", << issueBody, labels >>,
                    stripIssueSections(issueBody, labels))
  /\ UNCHANGED runVars

CallParseRef ==
  /\ call = NoCall
  /\ \/ \E input \in TextInputs, o \in Owners, r \in Repos :
          call' = Call("parseGitHubIssueRef", << input, o, r >>,
                       parseGitHubIssueRef(input, o, r))
     \/ \E input \in UrlInputs :
          call' = Call("parseGitHubIssueRef", << input, << "acme" >>, << "app" >> >>,
                       parseGitHubIssueRef(input, << "acme" >>, << "app" >>))
  /\ UNCHANGED runVars

CallValidateDiff ==
  /\ call = NoCall
  /\ \E diff \in Diffs : call' = Call("validateDiff", << diff >>, validateDiff(diff))
  /\ UNCHANGED runVars

CallParseRetryMax ==
  /\ call = NoCall
  /\ \E input \in RetryMaxInputs :
       call' = Call("parseRetryMax", << input >>, parseRetryMax(input))
  /\ UNCHANGED runVars

LibNext ==
  \/ CallExtract
  \/ CallStrip
  \/ CallParseRef
  \/ CallValidateDiff
  \/ CallParseRetryMax

\* the helpers called on their own, from the state in which run() starts
LibInit == Init /\ retryMax = 1

LibSpec == LibInit /\ [][LibNext]_vars

OnlyPlaceholder(section) ==
  /\ NonEmptyTrimmed(section) # << >>
  /\ \A i \in 1..Len(section) : trim(section[i]) \in {<< >>, Placeholder}

C22_PlaceholderIsEmpty ==
  (call.fn = "extractIssueFormFieldValue") =>
    LET issueBody == call.args[1]
        i == FirstHeading(issueBody, call.args[2])
    IN (i # 0 /\ OnlyPlaceholder(SectionAfter(issueBody, i))) => call.result = None

\* C23: for an input #N, N decimal digits of a positive number, and both
\* defaults present, the reference has that owner and repo and the url
\* https://github.com/{owner}/{repo}/issues/{N}; with a default absent
\* there is no reference
IsHashInput(input) ==
  /\ input.kind = "text"
  /\ Len(input.chars) >= 2
  /\ Head(input.chars) = "#"
  /\ IsDigits(Tail(input.chars))
  /\ \E i \in 2..Len(input.chars) : input.chars[i] # "0"

HashRef(owner, repo, n) ==
  [owner |-> owner, repo |-> repo,
   number |-> [nan |-> FALSE, positive |-> TRUE, plain |-> TRUE],
   url |-> Url("github.com", << owner, repo, << "issues" >>, n >>)]

C23_Original ==
  (call.fn = "parseGitHubIssueRef" /\ IsHashInput(call.args[1])) =>
    IF call.args[2] # << >> /\ call.args[3] # << >>
      THEN call.result = HashRef(call.args[2], call.args[3], Tail(call.args[1].chars))
      ELSE call.result = NoRef

\* C23 as amended: the number in the url is N without its leading zeros
RECURSIVE WithoutLeadingZeros(_)
WithoutLeadingZeros(digits) ==
  IF Len(digits) > 1 /\ Head(digits) = "0" THEN WithoutLeadingZeros(Tail(digits)) ELSE digits

C23_Amended ==
  (call.fn = "parseGitHubIssueRef" /\ IsHashInput(call.args[1])) =>
    IF call.args[2] # << >> /\ call.args[3] # << >>
      THEN call.result = HashRef(call.args[2], call.args[3],
                                 WithoutLeadingZeros(Tail(call.args[1].chars)))
      ELSE call.result = NoRef

\* #047 was parsed with both defaults present
C23_Witness ==
  /\ call.fn = "parseGitHubIssueRef"
  /\ call.args[1] = TextInput(<< "#", "0", "4", "7" >>)
  /\ call.result # NoRef
  /\ call.result.url.path[4] = << "4", "7" >>

\* C24: a URL whose host is not github.com, or whose path is not
\* /owner/repo/(issues|pull)/N with N > 0, yields no reference
WellShapedPath(path) ==
  LET parts == filterBoolean(path)
  IN /\ Len(parts) = 4
     /\ parts[3] \in {<< "issues" >>, << "pull" >>}
     /\ IsDigits(parts[4])
     /\ \E i \in 1..Len(parts[4]) : parts[4][i] # "0"

C24_OnlyIssueUrls ==
  (call.fn = "parseGitHubIssueRef" /\ call.args[1].kind = "url") =>
    ((call.args[1].host # "github.com" \/ ~WellShapedPath(call.args[1].path)) =>
       call.result = NoRef)

\* C25: after the sections of label L are stripped, no value is found
\* under L any more
C25_StripThenExtract ==
  (call.fn = "stripIssueSections" /\ Len(call.args[2]) = 1) =>
    extractIssueFormFieldValue(call.result, call.args[2][1]) = None

\* C26: the lines outside the removed sections are the result, unchanged
\* and in their order, up to whitespace at the very end.  A removed section
\* runs from a heading of one of the labels to the line before the next
\* heading.
TargetHeading(lines, labels, j) ==
  /\ isHeading(trim(lines[j]))
  /\ \E n \in 1..Len(labels) : headingRe(labels[n], trim(lines[j]))

Removed(lines, labels, i) ==
  \E j \in 1..i :
    /\ TargetHeading(lines, labels, j)
    /\ \A m \in (j + 1)..i : ~isHeading(trim(lines[m]))

RECURSIVE KeptFrom(_, _, _)
KeptFrom(lines, labels, i) ==
  IF i > Len(lines) THEN << >>
  ELSE (IF Removed(lines, labels, i) THEN << >> ELSE << lines[i] >>)
         \o KeptFrom(lines, labels, i + 1)

C26_StripFrame ==
  (call.fn = "stripIssueSections") =>
    trimEndLines(call.result) = trimEndLines(KeptFrom(call.args[1], call.args[2], 1))

\* a section was removed and the section after it was kept
C26_Witness ==
  /\ call.fn = "stripIssueSections"
  /\ \E j \in 1..Len(call.args[1]), m \in 1..Len(call.args[1]) :
       /\ j < m
       /\ Removed(call.args[1], call.args[2], j)
       /\ isHeading(trim(call.args[1][m]))
       /\ ~Removed(call.args[1], call.args[2], m)
       /\ call.result[Len(call.result)] = trimEnd(call.args[1][Len(call.args[1])])

\* C27: a diff with a file section of a lockfile or of a workflow file is
\* rejected, with or without the `diff --git` header of that section
ChangesForbiddenFile(diff) ==
  \E i \in 1..Len(diff) :
    \/ diff[i].k = "old" /\ diff[i].a \in LockFiles \cup WorkflowFiles
    \/ diff[i].k = "new" /\ diff[i].b \in LockFiles \cup WorkflowFiles

C27_ForbiddenRejected ==
  (call.fn = "validateDiff" /\ ChangesForbiddenFile(call.args[1])) => call.result # "ok"

\* C28: an accepted diff has a hunk header, and each of its @@ lines is a
\* hunk header with both ranges
C28_HunksRequired ==
  (call.fn = "validateDiff" /\ call.result = "ok") =>
    /\ \E i \in 1..Len(call.args[1]) : call.args[1][i].k = "hunk"
    /\ \A i \in 1..Len(call.args[1]) :
         (call.args[1][i].k = "hunk") => hunkHeaderPattern(call.args[1][i].pieces)

\* C29: retryMax is an integer >= 1: 3 for an empty or non-numeric input,
\* 1 for a parsed value below 1, else the parsed value
StartsNumber(s) ==
  \/ Len(s) >= 1 /\ s[1] \in DigitChars
  \/ Len(s) >= 2 /\ s[1] \in {"-", "+"} /\ s[2] \in DigitChars

\* the integer an input that starts a number starts with
WrittenValue(s) ==
  LET from == IF s[1] \in DigitChars THEN 1 ELSE 2
      to == CHOOSE n \in from..Len(s) :
              /\ \A i \in from..n : s[i] \in DigitChars
              /\ (n < Len(s)) => s[n + 1] \notin DigitChars
      v == DecimalValue(SubSeq(s, from, to))
  IN IF s[1] = "-" THEN 0 - v ELSE v

C29_RetryMax ==
  (call.fn = "parseRetryMax") =>
    LET input == call.args[1]
    IN /\ call.result \in Nat /\ call.result >= 1
       /\ ~StartsNumber(input) => call.result = 3
       /\ StartsNumber(input) =>
            call.result = (IF WrittenValue(input) < 1 THEN 1 ELSE WrittenValue(input))

\* retry-max: -5 gave 1
C29_Witness ==
  /\ call.fn = "parseRetryMax"
  /\ call.args[1] = << "-", "5" >>
  /\ call.result = 1

\* C30: when the event is not an issues event, or the issue lacks the
\* required label, the run ends with no API call, no subprocess and no
\* comment
C30_OnlyLabelledIssues ==
  (event # NoEvent /\ (event.name # "issues" \/ ~event.labelled)) =>
    /\ log = << >> /\ comments = << >> /\ prompts = << >>
    /\ ~apiReady
    /\ pc \in {"catch", "done"}
    /\ (pc = "done") => outcome \in {"skipped", "threw"}

\* an issues event for an issue without the label ended the run
C30_Witness ==
  /\ event.name = "issues" /\ event.number /\ ~event.labelled
  /\ pc = "done" /\ outcome = "skipped" /\ ~failed

\* ==================================================== claims C31 .. C39
\* index.ts:18: comment bodies above this size are posted in several calls;
\* the bodies built from the outputs explored here stay below it, so that
\* postCommentWithChunks posts each of them whole (index.ts:28-31)
ISSUE_COMMENT_CHUNK_SIZE == 60000

PostedWhole == \A i \in 1..Len(comments) : TextLen(comments[i]) <= ISSUE_COMMENT_CHUNK_SIZE

\* the kinds of text that come out of a subprocess
ProcessOutputKinds == {"agentStdout", "agentStderr", "suiteOut", "specificOut", "installOut"}

\* number of characters of raw process output in the text t
RECURSIVE RawOutputLen(_)
RawOutputLen(t) ==
  IF t = << >> THEN 0
  ELSE (IF Head(t).kind \in ProcessOutputKinds THEN Head(t).n ELSE 0) + RawOutputLen(Tail(t))

\* index.ts:361: the largest maxChars handed to truncate on a comment path
LargestCommentLimit == 20000

\* some process output of t is there in part only
OutputCut(t) == \E j \in 1..Len(t) : t[j].kind \in ProcessOutputKinds /\ t[j].n \notin OutLens

\* C31: every issue comment that embeds raw process output (agent stdout /
\* stderr, test output, error message) embeds it after a length truncation
\* only, with the [TRUNCATED: n chars] marker where something was cut; no
\* comment carries process output of unbounded length.
C31_OutputTruncated ==
  \A i \in 1..Len(comments) :
    /\ RawOutputLen(comments[i]) <= LargestCommentLimit
    /\ OutputCut(comments[i]) => HasKind(comments[i], "TRUNCATED")

\* the attempt whose failure produced the segment seg of a feedback text
\* (-1 for a text no attempt in particular produced): the agent's output
\* block names attempt + 1 in its first line, outputs carry the attempt
AttemptOutputKinds == {"agentStdout", "agentStderr", "suiteOut", "specificOut"}
ProducedBy(seg) ==
  IF seg.kind = "agentOutputHeader" THEN seg.id - 1
  ELSE IF seg.kind \in AttemptOutputKinds THEN seg.id
  ELSE -1

\* fb is the feedback the failed attempt with agent run log[a] leaves behind
\* (index.ts:431, 448, 459 / 474, 483 / 498)
IsFeedbackOf(fb, a) ==
  IF FailureClass(a) = "agentFailure"
    THEN /\ fb # << >>
         /\ fb[1] = Seg("agentOutputHeader", log[a].att + 1, 89 + log[a].res)
         /\ \A j \in 2..Len(fb) :
              fb[j].kind \in {"agentStdout", "agentStderr", "stderrLabel", "(empty)", "TRUNCATED"}
  ELSE IF FailureClass(a) = "noOp"
    THEN fb = noChangesFeedback
  ELSE \E j \in AttemptEvents(a) :
         /\ log[j].op \in {"suite", "specific"}
         /\ fb = truncate(Out(log[j].op \o "Out", log[a].att, log[j].len), 10000)

\* C32: failure feedback is not accumulated.  The prompt of attempt k+1
\* carries the feedback of attempt k and of no other attempt: nothing that
\* an attempt j < k produced is in it (the one feedback value is overwritten
\* after every failed attempt).
C32_FeedbackNotAccumulated ==
  \A p \in 1..Len(prompts) :
    /\ \A j \in 1..Len(prompts[p]) : ProducedBy(prompts[p][j]) \in {-1, p - 2}
    /\ p >= 2 =>
         \E a \in AgentIdx :
           /\ log[a].att = p - 2
           /\ IsFeedbackOf(RetrySection(prompts[p]), a)

\* a third attempt was prompted after an agent failure of the first and a
\* test failure of the second: its prompt carries the test output of the
\* second attempt and nothing of the first
C32_Witness ==
  /\ Len(prompts) = 3
  /\ \E a \in AgentIdx : log[a].att = 0 /\ FailureClass(a) = "agentFailure"
  /\ \E a \in AgentIdx : log[a].att = 1 /\ FailureClass(a) = "testFailure"
  /\ HasKind(prompts[2], "agentOutputHeader")
  /\ \E j \in 1..Len(prompts[3]) : ProducedBy(prompts[3][j]) = 1
  /\ ~HasKind(prompts[3], "agentOutputHeader")

\* C33: the agent prompt has the retry section ("retry attempt #<index+1>",
\* then the previous failure text as it is) if and only if the attempt
\* index is > 0 and the previous-failure text is not empty; the prompt of
\* attempt 0, and the prompt that follows an attempt whose captured output
\* is empty, have no retry section.
C33_RetrySectionIff ==
  /\ prompts # << >> => ~HasKind(prompts[1], "retryHeader")
  /\ pc \in {"afterAgent", "verify"} =>
       LET prompt == prompts[Len(prompts)]
       IN /\ Len(prompts) = attempt + 1
          /\ HasKind(prompt, "retryHeader") <=> (attempt > 0 /\ previousTestFailure # << >>)
          /\ HasKind(prompt, "retryHeader") =>
               Contains(prompt, Lit("retryHeader", attempt + 1, 109 + Digits(attempt + 1))
                                \o previousTestFailure \o Lit("retryFooter", 0, 87))
          /\ HasKind(prompt, "retryFooter") => HasKind(prompt, "retryHeader")

\* the suite of the first attempt failed without printing anything, so the
\* second prompt has no retry section; the second attempt failed with some
\* output and the third prompt has one
C33_Witness ==
  /\ pc = "afterAgent"
  /\ attempt = 2
  /\ Len(prompts) = 3
  /\ \E i \in Ops("suite") : log[i].att = 0 /\ log[i].res # 0 /\ log[i].len = 0
  /\ ~HasKind(prompts[2], "retryHeader")
  /\ HasKind(prompts[3], "retryHeader")

\* the calls that prepare the workspace: the look-up of the base branch,
\* the specific test run before the fix, the agent installation and the
\* four workspace commands
IsSetupEvent(ev) ==
  \/ ev.op \in {"git.getRef", "install", "git fetch", "git checkout base",
                "git pull", "git checkout -b"}
  \/ ev.op = "specific" /\ ev.att = -1

\* C34: workspace setup order.  In every run that invokes the agent, these
\* happened exactly once each and in this order before the first agent
\* invocation: base-branch existence check, pre-fix specific test (if one
\* is configured), agent install, git fetch origin <base>, git checkout
\* <base>, git pull --ff-only origin <base>, git checkout -b <working
\* branch>; the working branch is created once per run, not once per
\* attempt.
C34_SetupOrder ==
  AgentIdx # {} =>
    LET first == CHOOSE a \in AgentIdx : \A b \in AgentIdx : a <= b
        setup == SelectSeq(log, IsSetupEvent)
    IN /\ [i \in 1..Len(setup) |-> setup[i].op] =
            << "git.getRef" >>
            \o (IF testCommandSpecific THEN << "specific" >> ELSE << >>)
            \o << "install", "git fetch", "git checkout base", "git pull", "git checkout -b" >>
       /\ \A i \in Idx : IsSetupEvent(log[i]) => i < first
       /\ log[first - 1].op = "git checkout -b"
       /\ checkedOut = baseBranch
       /\ branchName = "qa/issue"

\* a run with a specific test made two attempts on one working branch
C34_Witness ==
  /\ testCommandSpecific
  /\ Cardinality(AgentIdx) = 2
  /\ pc = "done"
  /\ Cardinality(Ops("git checkout -b")) = 1
  /\ \E i \in Ops("specific") : log[i].att = -1

\* the last agent run of the log
LastAgent == CHOOSE a \in AgentIdx : \A b \in AgentIdx : b <= a

\* C35: a timed-out or killed agent subprocess (no exit status) is reported
\* as exit code 1 by runCodex / runAider, and the engine treats that attempt
\* as an agent failure, as it does any other non-zero exit: failure
\* comment, then a retry if attempts remain and the end of the run as
\* failed otherwise; it is never taken for a success.
C35_NoStatusIsFailure ==
  agentStatus # 0 =>
    /\ AgentIdx # {}
    /\ agentStatus = NoExitStatus => log[LastAgent].res = 1
    /\ log[LastAgent].res # 0
    /\ pc = "afterAgent" => agentResult.exitCode = log[LastAgent].res
    /\ ~fixSucceeded /\ ShipIdx = {} /\ pr = NoPR /\ outcome # "fixed"
    /\ pc # "afterAgent" =>
         /\ LastAgent + 1 = Len(log) \/ (LastAgent + 2 = Len(log) /\ pc = "done")
         /\ log[LastAgent + 1].op =
              (IF agentType = "aider" THEN "comment:aiderFailed" ELSE "comment:agentFailed")
         /\ IF log[LastAgent + 1].res # 0
              THEN \/ pc = "catch"
                   \/ pc = "done" /\ outcome = "threw" /\ failed
            ELSE IF agentType = "aider" \/ log[LastAgent].att = retryMax - 1
              THEN pc = "done" /\ outcome = "agentFailed" /\ failed
            ELSE /\ pc = "agentRun"
                 /\ attempt = log[LastAgent].att + 1
                 /\ attempt < retryMax
                 /\ HasKind(previousTestFailure, "agentOutputHeader")

\* the first codex run timed out and the loop is about to try again
C35_Witness ==
  /\ agentType = "codex"
  /\ agentStatus = NoExitStatus
  /\ pc = "agentRun"
  /\ attempt = 1
  /\ log[Len(log)] = Ev("comment:agentFailed", 0, 0, log[Len(log)].len)

\* C36: in manual-retry mode, for every retryMax >= 1, the attempt loop is
\* never left because its condition fails: it is left by the return of the
\* last failed attempt or by the break of a successful attempt, so that
\* fixSucceeded is true whenever control reaches the check after the loop
\* and the "Failed to generate a working fix after N attempts" branch is
\* never taken.
C36_LoopNeverExhausted ==
  agentType = "codex" =>
    /\ pc \in {"agentRun", "afterAgent", "verify"} => attempt < retryMax
    /\ pc \in {"postLoop", "describe"} =>
         /\ fixSucceeded
         /\ attempt < retryMax
         /\ FailureClass(LastAgent) = "none"
         /\ log[LastAgent].att = attempt
    /\ outcome # "notFixed"
    /\ (pc = "done" /\ outcome \in {"agentFailed", "noChanges", "testsFailed"}) =>
         /\ ~fixSucceeded
         /\ attempt = retryMax - 1
         /\ log[LastAgent].att = retryMax - 1
         /\ FailureClass(LastAgent) # "none"

\* the third and last attempt of a run with retryMax = 3 succeeded and
\* control is at the check after the loop
C36_Witness ==
  /\ agentType = "codex"
  /\ retryMax = 3
  /\ pc = "postLoop"
  /\ attempt = 2
  /\ fixSucceeded

Before(op, i) == {j \in Ops(op) : j < i}

\* C38: success pipeline.  After a successful attempt the engine executes
\* git add -A, git commit and git push in this order, each exactly once;
\* the creation of the pull request is then tried at most 3 times and stops
\* at the first success; if the 3 tries fail the error goes to the top-level
\* handler and the pr-url output is never set; pr-url is set only after a
\* successful creation; a failure of the follow-up issue comment (tried at
\* most 3 times) never fails the run.
C38_SuccessPipeline ==
  /\ \A op \in {"git add", "git commit", "git push"} : Cardinality(Ops(op)) <= 1
  /\ pc \in {"createPR", "issueComment"} \/ outcome = "fixed" =>
       \A op \in {"git add", "git commit", "git push"} : Cardinality(Ops(op)) = 1
  /\ \A i \in Ops("git add") :
       /\ fixSucceeded
       /\ \A j \in Idx : j > i => log[j].op \notin {"agent", "suite", "specific"}
       /\ i < Len(log) /\ log[i + 1].op = "git commit"
  /\ \A i \in Ops("git push") :
       \E c \in Ops("git commit") :
         \/ i = c + 1
         \/ i = c + 2 /\ log[c + 1].op = "openai"
  /\ \A i \in Ops("pulls.create") :
       /\ Before("git push", i) # {}
       /\ log[i].att = Cardinality(Before("pulls.create", i))
       /\ log[i].att <= 2
       /\ \A j \in Before("pulls.create", i) : log[j].res # 0
       /\ log[i - 1].op \in {"git push", "pulls.create"}
  /\ prUrlSet <=> \E i \in Ops("pulls.create") : log[i].res = 0
  /\ prUrlSet <=> pr # NoPR
  /\ (\E i \in Ops("pulls.create") : log[i].att = 2 /\ log[i].res # 0) =>
       /\ ~prUrlSet
       /\ Ops("comment:prOpened") = {}
       /\ \/ pc = "catch"
          \/ pc = "done" /\ outcome = "threw" /\ failed
  /\ \A i \in Ops("comment:prOpened") :
       /\ \E j \in Before("pulls.create", i) : log[j].res = 0
       /\ log[i].att = Cardinality(Before("comment:prOpened", i))
       /\ log[i].att <= 2
       /\ \A j \in Before("comment:prOpened", i) : log[j].res # 0
       /\ ~failed
       /\ pc \in {"issueComment", "done"}
       /\ pc = "done" => outcome = "fixed" /\ log[Len(log)].op = "comment:prOpened"

\* the pull request was created at the third try, the follow-up comment
\* failed three times, and the run ended as fixed with the job not failed
C38_Witness ==
  /\ pc = "done"
  /\ outcome = "fixed"
  /\ ~failed
  /\ prUrlSet
  /\ \E i \in Ops("pulls.create") : log[i].att = 2 /\ log[i].res = 0
  /\ \E i \in Ops("comment:prOpened") : log[i].att = 2 /\ log[i].res # 0

WorkspaceOps == {"git fetch", "git checkout base", "git pull", "git checkout -b"}

\* C39: exec() never throws: a command that fails yields a result with a
\* non-zero exitCode, and the engine does not look at the result of the
\* workspace git commands; so when git fetch, git checkout <base>, git pull
\* --ff-only or git checkout -b exits non-zero the run does not abort: the
\* commands that follow are still issued and the agent is still invoked.
C39_SetupFailuresIgnored ==
  \A i \in Idx :
    (log[i].op \in WorkspaceOps /\ log[i].res # 0) =>
      /\ \A op \in WorkspaceOps : Cardinality(Ops(op)) = 1
      /\ \A j \in Idx : j < i => log[j].op # "comment:unexpectedError"
      /\ \/ pc \in {"agentRun", "aiderRun"} /\ attempt = 0 /\ attempt < retryMax
            /\ log[Len(log)].op = "git checkout -b"
         \/ \E a \in AgentIdx : log[a].att = 0 /\ log[a - 1].op = "git checkout -b"

\* the four workspace commands failed, the agent was invoked all the same
\* and the run went on to open a pull request
C39_Witness ==
  /\ \A op \in WorkspaceOps : \E i \in Ops(op) : log[i].res # 0
  /\ AgentIdx # {}
  /\ pc = "done"
  /\ outcome = "fixed"

====
